---- MODULE Spec2Model ----
(***************************************************************************)
(* Model of the chunk normalisation pipeline: the Chunk entity and its     *)
(* merge (src/src/models.py), the chunk processors                         *)
(* (src/src/chunk_processors.py), the Pipeline orchestrator                *)
(* (src/src/pipeline.py) and the selection of the files to encode          *)
(* (src/src/utils.py).                                                     *)
(*                                                                         *)
(* Conventions.  A str is a sequence of one-character strings.  An         *)
(* Optional value is a sequence of length 0 (None) or 1 (the value).  A    *)
(* call that raises is the record [ok |-> FALSE, ...].  A reference to a   *)
(* chunk object (Chunk.heading) is the position of that object in the      *)
(* caller's list; 0 is used where no object is referenced.                 *)
(***************************************************************************)
EXTENDS Integers, Sequences, FiniteSets, TLC

VARIABLES
    c_pc,       \* Chunk harness: "build", "merged" or "raised"
    c_live,     \* the Chunk objects constructed so far (receiver first)
    c_kw,       \* Optional: keyword arguments of the last Chunk(...) call
    c_ok,       \* whether that call returned a chunk
    c_sep,      \* text_separator of the merge call
    c_ret,      \* Optional: the chunk returned by merge
    p_pc,       \* processor harness: "new", "ready" or "init_raised"
    p_args,     \* the class and constructor arguments of the processor
    p_self,     \* Optional: the attributes of the constructed processor
    objs,       \* the caller's chunk objects, in the order of the input list
    p_before,   \* objs as it was when the last call started
    p_calls,    \* how many calls of the processor have ended
    p_raised,   \* whether the last call raised
    p_out,      \* the list the last call returned, as it was on return
    p_first,    \* the list the first call returned, as it was on return
    pl_pc,      \* Pipeline.__call__: "start", "components", "finish", "returned", "raised"
    pl_self,    \* the Pipeline: its components and its Optional encoder
    pl_document,        \* the text blocks of the document passed to the call
    pl_batch_size,      \* Optional: encoder_batch_size passed to the call
    pl_chunks,  \* the local variable chunks
    pl_i,       \* how many components the loop has called
    pl_log,     \* the calls made so far to components and to the encoder
    pl_ret,     \* what the call returned, or the error it raised
    f_pc,       \* get_files_to_process: "start" or "returned"
    f_args,     \* its arguments, the two listings and config.FILES_TO_PROCESS
    f_ret       \* the list of ids it returned

chunkVars == <<c_pc, c_live, c_kw, c_ok, c_sep, c_ret>>
procVars == <<p_pc, p_args, p_self, objs, p_before, p_calls, p_raised, p_out, p_first>>
pipeVars == <<pl_pc, pl_self, pl_document, pl_batch_size, pl_chunks, pl_i, pl_log, pl_ret>>
cliVars == <<f_pc, f_args, f_ret>>
vars == <<c_pc, c_live, c_kw, c_ok, c_sep, c_ret,
          p_pc, p_args, p_self, objs, p_before, p_calls, p_raised, p_out, p_first,
          pl_pc, pl_self, pl_document, pl_batch_size, pl_chunks, pl_i, pl_log, pl_ret,
          f_pc, f_args, f_ret>>

-----------------------------------------------------------------------------
(* Python values *)

None == <<>>
Some(v) == <<v>>
IsNone(o) == o = <<>>
Get(o) == o[1]

Raise(e) == [ok |-> FALSE, err |-> e]
Return(v) == [ok |-> TRUE, val |-> v]

RECURSIVE Concat(_)
\* the concatenation of a list of lists
Concat(ss) == IF ss = <<>> THEN <<>> ELSE Head(ss) \o Concat(Tail(ss))

RECURSIVE str_join(_, _)
\* sep.join(texts)
str_join(sep, texts) ==
    IF texts = <<>> THEN <<>>
    ELSE IF Len(texts) = 1 THEN texts[1]
    ELSE texts[1] \o sep \o str_join(sep, Tail(texts))

Min(S) == CHOOSE m \in S : \A n \in S : m <= n

\* the lists of at most n elements of S
SeqsUpTo(S, n) == UNION {[1..k -> S] : k \in 0..n}

-----------------------------------------------------------------------------
(* cpr_sdk.parser_models.BlockType: the values of the enumeration *)

TEXT == "Text"
TITLE == "Title"
LIST == "List"
TABLE == "Table"
TABLE_CELL == "TableCell"
FIGURE == "Figure"
PAGE_HEADER == "pageHeader"
PAGE_FOOTER == "pageFooter"
PAGE_NUMBER == "pageNumber"
SECTION_HEADING == "sectionHeading"
TITLE_LOWER_CASE == "title"
FOOT_NOTE == "footnote"

BlockType ==
    {TEXT, TITLE, LIST, TABLE, TABLE_CELL, FIGURE, PAGE_HEADER, PAGE_FOOTER,
     PAGE_NUMBER, SECTION_HEADING, TITLE_LOWER_CASE, FOOT_NOTE}

-----------------------------------------------------------------------------
(* Chunk (src/src/models.py) *)

\* Chunk._verify_bounding_boxes: value is Optional[list of polygons]; TRUE when
\* the validator returns, FALSE when it raises ValueError.
_verify_bounding_boxes_no_y(value) ==
    IsNone(value) \/
    \A k \in 1..Len(Get(value)) :
        LET box == Get(value)[k] IN
        /\ Len(box) = 4
        /\ box[1][1] < box[2][1]

_verify_bounding_boxes(value) ==
    IsNone(value) \/
    \A k \in 1..Len(Get(value)) :
        LET box == Get(value)[k] IN
        /\ Len(box) = 4
        /\ LET xmin == box[1][1]
               ymin == box[1][2]
               xmax == box[2][1]
               ymax == box[3][2]
           IN xmin < xmax /\ ymin < ymax

\* Chunk._verify_bbox_and_pages: the assertion of the method.  No validator
\* and no caller runs the method, so it is not part of NewChunk.
_verify_bbox_and_pages(self) ==
    (~IsNone(self.bounding_boxes) /\ ~IsNone(self.pages))
        => Len(Get(self.bounding_boxes)) = Len(Get(self.pages))

RequiredFields == {"id", "text", "chunk_type", "bounding_boxes", "pages"}

\* Chunk(**kw): pydantic validation of the declared fields.  Keywords that
\* name no field are ignored, a missing required field fails, id is a
\* strict int >= 0, the bounding_boxes validator runs after type validation,
\* heading / tokens / serialized_text default to None.
NewChunk(kw) ==
    IF ~(RequiredFields \subseteq DOMAIN kw) THEN Raise("ValidationError")
    ELSE IF kw.id < 0 THEN Raise("ValidationError")
    ELSE IF kw.chunk_type \notin BlockType THEN Raise("ValidationError")
    ELSE IF ~_verify_bounding_boxes(kw.bounding_boxes) THEN Raise("ValidationError")
    ELSE Return([id |-> kw.id,
                 text |-> kw.text,
                 chunk_type |-> kw.chunk_type,
                 heading |-> IF "heading" \in DOMAIN kw THEN kw.heading ELSE None,
                 bounding_boxes |-> kw.bounding_boxes,
                 pages |-> kw.pages,
                 tokens |-> IF "tokens" \in DOMAIN kw THEN kw.tokens ELSE None,
                 serialized_text |->
                     IF "serialized_text" \in DOMAIN kw THEN kw.serialized_text
                     ELSE None])

\* Chunk.model_copy(update=...): a copy with the given fields replaced; pydantic
\* runs no validation on the copy.
model_copy(self, update) ==
    [f \in DOMAIN self |-> IF f \in DOMAIN update THEN update[f] ELSE self[f]]

\* Chunk._check_incompatible_properties: the nullable properties whose
\* nullability differs between self and some chunk of others.
_check_incompatible_properties_bbox_only(self, others) ==
    IF \E k \in 1..Len(others) :
           IsNone(others[k].bounding_boxes) # IsNone(self.bounding_boxes)
    THEN <<"bounding_boxes">> ELSE <<>>

_check_incompatible_properties(self, others) ==
    LET issue(prop) ==
            \E k \in 1..Len(others) : IsNone(others[k][prop]) # IsNone(self[prop])
    IN (IF issue("bounding_boxes") THEN <<"bounding_boxes">> ELSE <<>>)
       \o (IF issue("pages") THEN <<"pages">> ELSE <<>>)

\* Chunk._check_optional_properties: the optional properties a merge loses
\* (they are only logged).
_check_optional_properties(self, others) ==
    LET set(prop) ==
            ~IsNone(self[prop]) \/ \E k \in 1..Len(others) : ~IsNone(others[k][prop])
    IN (IF set("heading") THEN <<"heading">> ELSE <<>>)
       \o (IF set("tokens") THEN <<"tokens">> ELSE <<>>)
       \o (IF set("serialized_text") THEN <<"serialized_text">> ELSE <<>>)

\* The fields the merged chunk is constructed from (models.py:131-162).
merge_id_receiver(all_chunks) == all_chunks[1].id

\* a merged chunk starts again at id 0
merge_id_reset(all_chunks) == 0

merge_id(all_chunks) == Min({all_chunks[k].id : k \in 1..Len(all_chunks)})

merge_text_reversed(all_chunks, text_separator) ==
    str_join(text_separator,
             [k \in 1..Len(all_chunks) |-> all_chunks[Len(all_chunks) + 1 - k].text])

merge_text(all_chunks, text_separator) ==
    str_join(text_separator, [k \in 1..Len(all_chunks) |-> all_chunks[k].text])

merge_list(self, all_chunks, prop) ==
    IF IsNone(self[prop]) THEN None
    ELSE Some(Concat([k \in 1..Len(all_chunks) |->
                        IF IsNone(all_chunks[k][prop]) THEN <<>>
                        ELSE Get(all_chunks[k][prop])]))

\* Chunk.merge(others, text_separator).  With no others the receiver itself
\* is returned.
merge(self, others, text_separator) ==
    IF others = <<>> THEN Return(self)
    ELSE IF _check_incompatible_properties(self, others) # <<>>
    THEN Raise("ValueError")
    ELSE LET all_chunks == <<self>> \o others IN
         NewChunk([id |-> merge_id(all_chunks),
                   text |-> merge_text(all_chunks, text_separator),
                   chunk_type |-> self.chunk_type,
                   bounding_boxes |-> merge_list(self, all_chunks, "bounding_boxes"),
                   pages |-> merge_list(self, all_chunks, "pages"),
                   heading |-> None,
                   tokens |-> None,
                   serialized_text |-> None])

-----------------------------------------------------------------------------
(* str and re, on sequences of characters *)

Digits == {"0", "1", "2", "3", "4", "5", "6", "7", "8", "9"}
Whitespace == {" ", "\n", "\t"}
Uppers == <<"A", "B", "C", "D", "E", "F", "G", "H", "I", "J", "K", "L", "M",
            "N", "O", "P", "Q", "R", "S", "T", "U", "V", "W", "X", "Y", "Z">>
Lowers == <<"a", "b", "c", "d", "e", "f", "g", "h", "i", "j", "k", "l", "m",
            "n", "o", "p", "q", "r", "s", "t", "u", "v", "w", "x", "y", "z">>

lower_char(c) ==
    IF \E k \in 1..Len(Uppers) : Uppers[k] = c
    THEN Lowers[CHOOSE k \in 1..Len(Uppers) : Uppers[k] = c]
    ELSE c

\* str.lower()
str_lower(t) == [k \in 1..Len(t) |-> lower_char(t[k])]

RECURSIVE str_lstrip(_)
str_lstrip(t) ==
    IF t # <<>> /\ Head(t) \in Whitespace THEN str_lstrip(Tail(t)) ELSE t

RECURSIVE str_rstrip(_)
str_rstrip(t) ==
    IF t # <<>> /\ t[Len(t)] \in Whitespace
    THEN str_rstrip(SubSeq(t, 1, Len(t) - 1)) ELSE t

\* str.strip()
str_strip(t) == str_rstrip(str_lstrip(t))

\* the positions at which "$" matches (no MULTILINE): the end of the text, and
\* just before a newline that ends the text; a position is the number of
\* characters before it
AtDollar(t, e) ==
    e = Len(t) \/ (e = Len(t) - 1 /\ t[Len(t)] = "\n")

\* the literal word lies at t[i+1 .. i+Len(word)]; case is ignored under
\* re.IGNORECASE
Literal(t, i, word, ignore_case) ==
    /\ i + Len(word) <= Len(t)
    /\ \A k \in 1..Len(word) :
          IF ignore_case THEN lower_char(t[i + k]) = lower_char(word[k])
          ELSE t[i + k] = word[k]

\* re.match(r"^[+-]?[\d,\s]*\.?\d+$", t) is not None  (chunk_processors.py:72-74)
MatchesAllNumeric(t) ==
    \E s \in {0, 1} : \E m \in s..Len(t) : \E d \in {0, 1} : \E e \in (m + d + 1)..Len(t) :
        /\ s = 1 => t[1] \in {"+", "-"}
        /\ \A k \in (s + 1)..m : t[k] \in Digits \cup {","} \cup Whitespace
        /\ d = 1 => t[m + 1] = "."
        /\ \A k \in (m + d + 1)..e : t[k] \in Digits
        /\ AtDollar(t, e)

\* The regular expressions the processors are configured with.
PATTERN_CHECKBOX == "\\s?:(?:un)?selected:\\s?"
PATTERN_PAGE_NUMBER == "^(?:page\\s*)?\\s*\\d+$"

\* The ends of the matches of pattern that start after the first i characters
\* of t, in the order the backtracking matcher tries them (the first is the
\* match re.sub and re.finditer take).
CheckboxMatchEnds(t, i, ignore_case) ==
    LET lead == IF i < Len(t) /\ t[i + 1] \in Whitespace THEN 1 ELSE 0
        a == i + lead
        un == IF Literal(t, a + 1, <<"u", "n">>, ignore_case) THEN 2 ELSE 0
        word == <<"s", "e", "l", "e", "c", "t", "e", "d", ":">>
        e == a + 1 + un + Len(word)
    IN IF a < Len(t) /\ t[a + 1] = ":" /\ Literal(t, a + 1 + un, word, ignore_case)
       THEN IF e < Len(t) /\ t[e + 1] \in Whitespace THEN <<e + 1, e>> ELSE <<e>>
       ELSE <<>>

PageNumberMatchEnds(t, i, ignore_case) ==
    IF i # 0 THEN <<>>
    ELSE LET page == <<"p", "a", "g", "e">>
             starts == {0} \cup (IF Literal(t, 0, page, ignore_case) THEN {Len(page)} ELSE {})
             ends == {e \in 1..Len(t) :
                        /\ AtDollar(t, e)
                        /\ \E p \in starts : \E d \in (p + 1)..e :
                              /\ \A k \in (p + 1)..(d - 1) : t[k] \in Whitespace
                              /\ \A k \in d..e : t[k] \in Digits}
         IN IF ends = {} THEN <<>> ELSE <<CHOOSE e \in ends : \A f \in ends : f <= e>>

MatchEnds(pattern, t, i, ignore_case) ==
    IF pattern = PATTERN_CHECKBOX THEN CheckboxMatchEnds(t, i, ignore_case)
    ELSE PageNumberMatchEnds(t, i, ignore_case)

\* re.match(f"^{pattern}$", t, flags) is not None
re_match_whole(pattern, t, ignore_case) ==
    LET ends == MatchEnds(pattern, t, 0, ignore_case) IN
    \E k \in 1..Len(ends) : AtDollar(t, ends[k])

RECURSIVE re_sub_from(_, _, _, _, _, _)
\* the rest of re.sub from position i on, with `left` replacements left to
\* make (-1: no limit)
re_sub_from(pattern, repl, t, i, left, ignore_case) ==
    IF i >= Len(t) THEN <<>>
    ELSE LET ends == MatchEnds(pattern, t, i, ignore_case) IN
         IF left = 0 \/ ends = <<>>
         THEN <<t[i + 1]>> \o re_sub_from(pattern, repl, t, i + 1, left, ignore_case)
         ELSE repl \o re_sub_from(pattern, repl, t, ends[1],
                                  IF left > 0 THEN left - 1 ELSE left, ignore_case)

\* re.sub(pattern, repl, t, count, flags); count = 0 replaces every match
re_sub(pattern, repl, t, count, ignore_case) ==
    re_sub_from(pattern, repl, t, 0, IF count = 0 THEN -1 ELSE count, ignore_case)

-----------------------------------------------------------------------------
(* Chunk processors (src/src/chunk_processors.py) *)

(* A list of chunks handled by a processor is a sequence of entries           *)
(* [ref, val]: ref > 0 says the element is the caller's object objs[ref] (its  *)
(* fields are read from objs), ref = 0 says it is a new object with fields    *)
(* val.                                                                       *)
InputEntry(i) == [ref |-> i, val |-> None]
NewEntry(chunk) == [ref |-> 0, val |-> Some(chunk)]
Deref(e, heap) == IF e.ref > 0 THEN heap[e.ref] ELSE Get(e.val)

\* what a call hands back: the returned list and the caller's objects after it
Result(out, heap) == [ok |-> TRUE, out |-> out, objs |-> heap]
Raised(e, heap) == [ok |-> FALSE, err |-> e, out |-> <<>>, objs |-> heap]

RECURSIVE Select(_, _, _, _)
\* [chunk for chunk in chunks if Keep(chunk)], from the i-th chunk on
Select(heap, i, Keep(_), acc) ==
    IF i > Len(heap) THEN acc
    ELSE Select(heap, i + 1, Keep,
                IF Keep(heap[i]) THEN Append(acc, InputEntry(i)) ELSE acc)

\* IdentityChunkProcessor.__call__
IdentityChunkProcessor_call(self, heap) ==
    Result([i \in 1..Len(heap) |-> InputEntry(i)], heap)

\* utils.filter_and_warn_for_unknown_types: BlockType(_type) raises ValueError
\* for a string that is no value of the enumeration; the handler catches
\* NameError only, so the ValueError leaves the function.
filter_and_warn_for_unknown_types(types) ==
    IF \E k \in 1..Len(types) : types[k] \notin BlockType
    THEN Raise("ValueError")
    ELSE Return(types)

\* ChunkTypeFilter.__call__
ChunkTypeFilter_call(self, heap) ==
    LET Keep(chunk) ==
            \A k \in 1..Len(self.types_to_remove) :
                chunk.chunk_type # self.types_to_remove[k]
    IN Result(Select(heap, 1, Keep, <<>>), heap)

\* a cell of exactly min_chars characters counts as short
RemoveShortTableCells_call_at_most(self, heap) ==
    LET Keep(chunk) ==
            \/ chunk.chunk_type # TABLE_CELL
            \/ /\ ~(Len(chunk.text) <= self.min_chars)
               /\ ~(self.remove_all_numeric /\ MatchesAllNumeric(str_strip(chunk.text)))
    IN Result(Select(heap, 1, Keep, <<>>), heap)

\* RemoveShortTableCells.__call__
RemoveShortTableCells_call(self, heap) ==
    LET Keep(chunk) ==
            \/ chunk.chunk_type # TABLE_CELL
            \/ /\ ~(Len(chunk.text) < self.min_chars)
               /\ ~(self.remove_all_numeric /\ MatchesAllNumeric(str_strip(chunk.text)))
    IN Result(Select(heap, 1, Keep, <<>>), heap)

\* RemoveChunksUnderLength.__call__
RemoveChunksUnderLength_call(self, heap) ==
    LET Keep(chunk) == Len(chunk.text) >= self.min_num_characters
    IN Result(Select(heap, 1, Keep, <<>>), heap)

RECURSIVE RemoveRepeatedAdjacentChunks_loop(_, _, _, _, _)
\* the loop of RemoveRepeatedAdjacentChunks.__call__ from the i-th chunk on;
\* current_chunk_of_type maps each configured type to an Optional text
RemoveRepeatedAdjacentChunks_loop(self, heap, i, current_chunk_of_type, new_chunks) ==
    IF i > Len(heap) THEN new_chunks
    ELSE LET chunk == heap[i] IN
         IF chunk.chunk_type \notin DOMAIN current_chunk_of_type
         THEN RemoveRepeatedAdjacentChunks_loop(
                  self, heap, i + 1, current_chunk_of_type,
                  Append(new_chunks, InputEntry(i)))
         ELSE LET current_text == current_chunk_of_type[chunk.chunk_type]
                  chunk_text == IF self.ignore_case THEN str_lower(chunk.text)
                                ELSE chunk.text
              IN IF current_text = None \/ Get(current_text) # chunk_text
                 THEN RemoveRepeatedAdjacentChunks_loop(
                          self, heap, i + 1,
                          [current_chunk_of_type EXCEPT
                              ![chunk.chunk_type] = Some(chunk_text)],
                          Append(new_chunks, InputEntry(i)))
                 ELSE RemoveRepeatedAdjacentChunks_loop(
                          self, heap, i + 1, current_chunk_of_type, new_chunks)

\* a chunk is dropped when the chunk right before it has its type and text
RemoveRepeatedAdjacentChunks_call_neighbours_only(self, heap) ==
    LET lowered(t) == IF self.ignore_case THEN str_lower(t) ELSE t
        tracked(i) == \E k \in 1..Len(self.chunk_types) :
                          self.chunk_types[k] = heap[i].chunk_type
        repeats(i) == /\ tracked(i)
                      /\ i > 1
                      /\ heap[i - 1].chunk_type = heap[i].chunk_type
                      /\ lowered(heap[i - 1].text) = lowered(heap[i].text)
    IN Result(SelectSeq([i \in 1..Len(heap) |-> InputEntry(i)],
                        LAMBDA e : ~repeats(e.ref)),
              heap)

RECURSIVE RemoveRepeatedAdjacentChunks_loop_forgetting(_, _, _, _, _)
\* the loop with the tracked text of a type forgotten when a chunk is dropped
RemoveRepeatedAdjacentChunks_loop_forgetting(self, heap, i, current_chunk_of_type,
                                             new_chunks) ==
    IF i > Len(heap) THEN new_chunks
    ELSE LET chunk == heap[i] IN
         IF chunk.chunk_type \notin DOMAIN current_chunk_of_type
         THEN RemoveRepeatedAdjacentChunks_loop_forgetting(
                  self, heap, i + 1, current_chunk_of_type,
                  Append(new_chunks, InputEntry(i)))
         ELSE LET current_text == current_chunk_of_type[chunk.chunk_type]
                  chunk_text == IF self.ignore_case THEN str_lower(chunk.text)
                                ELSE chunk.text
              IN IF current_text = None \/ Get(current_text) # chunk_text
                 THEN RemoveRepeatedAdjacentChunks_loop_forgetting(
                          self, heap, i + 1,
                          [current_chunk_of_type EXCEPT
                              ![chunk.chunk_type] = Some(chunk_text)],
                          Append(new_chunks, InputEntry(i)))
                 ELSE RemoveRepeatedAdjacentChunks_loop_forgetting(
                          self, heap, i + 1,
                          [current_chunk_of_type EXCEPT ![chunk.chunk_type] = None],
                          new_chunks)

RemoveRepeatedAdjacentChunks_call_forgetting(self, heap) ==
    Result(RemoveRepeatedAdjacentChunks_loop_forgetting(
               self, heap, 1,
               [t \in {self.chunk_types[k] : k \in 1..Len(self.chunk_types)} |-> None],
               <<>>),
           heap)

\* RemoveRepeatedAdjacentChunks.__call__
RemoveRepeatedAdjacentChunks_call(self, heap) ==
    Result(RemoveRepeatedAdjacentChunks_loop(
               self, heap, 1,
               [t \in {self.chunk_types[k] : k \in 1..Len(self.chunk_types)} |-> None],
               <<>>),
           heap)

RECURSIVE AddHeadings_loop(_, _, _, _, _)
\* the loop of AddHeadings.__call__ from the i-th chunk on: new_chunks is a
\* new list of the same objects, so the assignments to chunk.heading are
\* made on the caller's objects.  current_heading and current_subheading are
\* Optional references.
AddHeadings_loop(self, heap, i, current_heading, current_subheading) ==
    IF i > Len(heap) THEN heap
    ELSE IF heap[i].chunk_type \in self.heading_types
    THEN AddHeadings_loop(self, heap, i + 1, Some(i), None)
    ELSE IF heap[i].chunk_type \in self.subheading_types
    THEN AddHeadings_loop(self, [heap EXCEPT ![i].heading = current_heading],
                          i + 1, current_heading, Some(i))
    ELSE AddHeadings_loop(
             self,
             [heap EXCEPT ![i].heading =
                 IF current_subheading # None THEN current_subheading
                 ELSE current_heading],
             i + 1, current_heading, current_subheading)

AddHeadings_call_headings_nested(self, heap) ==
    LET after == AddHeadings_loop(self, heap, 1, None, None) IN
    Result([i \in 1..Len(heap) |-> InputEntry(i)],
           [i \in 1..Len(heap) |->
               IF after[i].chunk_type \in self.heading_types /\ i > 1
               THEN [after[i] EXCEPT !.heading = Some(i - 1)]
               ELSE after[i]])

\* AddHeadings.__call__
AddHeadings_call(self, heap) ==
    Result([i \in 1..Len(heap) |-> InputEntry(i)],
           AddHeadings_loop(self, heap, 1, None, None))

\* RemoveRegexPattern: the chunk a processed chunk is replaced by.  re.sub is
\* called as re.sub(pattern, repl, text, re.IGNORECASE if ignore_case else 0):
\* the fourth positional parameter of re.sub is count, and re.IGNORECASE is 2.
RemoveRegexPattern_new_text(self, text) ==
    str_strip(re_sub(self.pattern, self.replace_with, text,
                     IF self.ignore_case THEN 2 ELSE 0, FALSE))

RECURSIVE RemoveRegexPattern_loop(_, _, _, _)
RemoveRegexPattern_loop(self, heap, i, new_chunks) ==
    IF i > Len(heap) THEN new_chunks
    ELSE LET chunk == heap[i]
             next(acc) == RemoveRegexPattern_loop(self, heap, i + 1, acc)
         IN
         IF self.chunk_types # None
               /\ \A k \in 1..Len(Get(self.chunk_types)) :
                     Get(self.chunk_types)[k] # chunk.chunk_type
         THEN next(Append(new_chunks, InputEntry(i)))
         ELSE IF re_match_whole(self.pattern, chunk.text, self.ignore_case)
         THEN next(new_chunks)
         ELSE IF self.skip_partial_replacements
         THEN next(Append(new_chunks, InputEntry(i)))
         ELSE LET new_text == RemoveRegexPattern_new_text(self, chunk.text) IN
              IF new_text # <<>>
              THEN next(Append(new_chunks,
                               NewEntry(model_copy(chunk, [text |-> new_text]))))
              ELSE next(new_chunks)

RemoveRegexPattern_call_always_replacing(self, heap) ==
    Result(RemoveRegexPattern_loop(
               [self EXCEPT !.skip_partial_replacements = FALSE], heap, 1, <<>>),
           heap)

\* RemoveRegexPattern.__call__ (also RemoveFalseCheckboxes and
\* RemoveMisclassifiedPageNumbers, which only configure it)
RemoveRegexPattern_call(self, heap) ==
    Result(RemoveRegexPattern_loop(self, heap, 1, <<>>), heap)

_set_chunk_type_merged_only(self, merged_chunk, heap) ==
    IF self.merge_into_chunk_type = None \/ merged_chunk.ref > 0
    THEN [entry |-> merged_chunk, objs |-> heap]
    ELSE [entry |-> NewEntry([Get(merged_chunk.val) EXCEPT
                                 !.chunk_type = Get(self.merge_into_chunk_type)]),
          objs |-> heap]

\* CombineSuccessiveSameTypeChunks._set_chunk_type: assigns the chunk_type of
\* the object it is given; [entry, objs] after the assignment
_set_chunk_type(self, merged_chunk, heap) ==
    IF self.merge_into_chunk_type = None THEN [entry |-> merged_chunk, objs |-> heap]
    ELSE IF merged_chunk.ref > 0
    THEN [entry |-> merged_chunk,
          objs |-> [heap EXCEPT ![merged_chunk.ref].chunk_type =
                                    Get(self.merge_into_chunk_type)]]
    ELSE [entry |-> NewEntry([Get(merged_chunk.val) EXCEPT
                                 !.chunk_type = Get(self.merge_into_chunk_type)]),
          objs |-> heap]

RECURSIVE CombineSuccessiveSameTypeChunks_loop(_, _, _, _, _)
\* the loop of CombineSuccessiveSameTypeChunks.__call__ from the i-th chunk
\* on; current_chunk is an Optional entry
CombineSuccessiveSameTypeChunks_loop(self, heap, i, current_chunk, new_chunks) ==
    LET flush == _set_chunk_type(self, Get(current_chunk), heap) IN
    IF i > Len(heap)
    THEN IF current_chunk # None
         THEN Result(Append(new_chunks, flush.entry), flush.objs)
         ELSE Result(new_chunks, heap)
    ELSE LET chunk == heap[i] IN
         IF \A k \in 1..Len(self.chunk_types_to_combine) :
                self.chunk_types_to_combine[k] # chunk.chunk_type
         THEN IF current_chunk # None
              THEN CombineSuccessiveSameTypeChunks_loop(
                       self, flush.objs, i + 1, None,
                       new_chunks \o <<flush.entry, InputEntry(i)>>)
              ELSE CombineSuccessiveSameTypeChunks_loop(
                       self, heap, i + 1, None, Append(new_chunks, InputEntry(i)))
         ELSE IF current_chunk = None
         THEN CombineSuccessiveSameTypeChunks_loop(
                  self, heap, i + 1, Some(InputEntry(i)), new_chunks)
         ELSE IF chunk.chunk_type = Deref(Get(current_chunk), heap).chunk_type
         THEN LET m == merge(Deref(Get(current_chunk), heap), <<chunk>>,
                             self.text_separator)
              IN IF m.ok
                 THEN CombineSuccessiveSameTypeChunks_loop(
                          self, heap, i + 1, Some(NewEntry(m.val)), new_chunks)
                 ELSE Raised(m.err, heap)
         ELSE CombineSuccessiveSameTypeChunks_loop(
                  self, flush.objs, i + 1, Some(InputEntry(i)),
                  Append(new_chunks, flush.entry))

\* CombineSuccessiveSameTypeChunks.__call__
CombineSuccessiveSameTypeChunks_call(self, heap) ==
    CombineSuccessiveSameTypeChunks_loop(self, heap, 1, None, <<>>)

\* characters outside ASCII, each written as one element of a str
BULLET == "<U+2022>"
MIDDLE_DOT == "<U+00B7>"
EN_DASH == "<U+2013>"

Letters_azAZ == {Uppers[k] : k \in 1..Len(Uppers)} \cup {Lowers[k] : k \in 1..Len(Lowers)}

islower_any_letter(c) == c \in Letters_azAZ

\* c.islower() of a one-character str
islower(c) == \E k \in 1..Len(Lowers) : Lowers[k] = c

\* t.endswith(suffixes) for one-character suffixes
endswith(t, suffixes) == t # <<>> /\ t[Len(t)] \in suffixes

\* the marker part of CombineTextChunksIntoList.list_item_pattern matches
\* right after the first i characters of t:
\*   (?:\u2022|-|\u00b7|(?:[\(|\[]?[0-9a-zA-Z]{0,3}[\.|\)|\]|\-|\u2013])|(?:[A-Za-z][-\u2013]))
ListMarkerAt(t, i) ==
    \/ i < Len(t) /\ t[i + 1] \in {BULLET, "-", MIDDLE_DOT}
    \/ \E o \in {0, 1} : \E n \in 0..3 :
          /\ i + o + n + 1 <= Len(t)
          /\ o = 1 => t[i + 1] \in {"(", "|", "["}
          /\ \A k \in (i + o + 1)..(i + o + n) : t[k] \in Digits \cup Letters_azAZ
          /\ t[i + o + n + 1] \in {".", "|", ")", "]", "-", EN_DASH}
    \/ /\ i + 2 <= Len(t)
       /\ t[i + 1] \in Letters_azAZ
       /\ t[i + 2] \in {"-", EN_DASH}

\* re.findall(self.list_item_pattern, t) is not empty: the pattern is
\* (^|\n) followed by a marker and by .*? (which matches the empty text), and
\* it is used without re.MULTILINE, so ^ is the start of the text only
HasListItem(t) ==
    \/ ListMarkerAt(t, 0)
    \/ \E i \in 1..Len(t) : t[i] = "\n" /\ ListMarkerAt(t, i)

\* CombineTextChunksIntoList.__call__: the local variables before the loop
CombineTextChunksIntoList_start ==
    [ok |-> TRUE,
     new_chunks |-> <<>>,
     current_list_chunk |-> None,
     potential_list_continuation |-> FALSE,
     potential_list_intro |-> None]

CombineTextChunksIntoList_merged_with_space(st, receiver, chunk, text_separator, new_chunks, intro) ==
    LET m == merge(receiver, <<chunk>>, <<" ">>) IN
    IF m.ok
    THEN [st EXCEPT !.new_chunks = new_chunks,
                    !.current_list_chunk = Some(NewEntry(m.val)),
                    !.potential_list_intro = intro,
                    !.potential_list_continuation = TRUE]
    ELSE [st EXCEPT !.ok = FALSE]

\* the pending intro stays set when it is folded into a list
CombineTextChunksIntoList_merged_keeping_intro(st, receiver, chunk, text_separator, new_chunks, intro) ==
    LET m == merge(receiver, <<chunk>>, text_separator) IN
    IF m.ok
    THEN [st EXCEPT !.new_chunks = new_chunks,
                    !.current_list_chunk = Some(NewEntry(m.val)),
                    !.potential_list_continuation = TRUE]
    ELSE [st EXCEPT !.ok = FALSE]

\* potential_list_intro.model_copy(update={"chunk_type": LIST}).merge([chunk], sep)
\* and the like: the locals after current_list_chunk is set to the merge of
\* `receiver` with `chunk`, or the error the merge raises
CombineTextChunksIntoList_merged(st, receiver, chunk, text_separator, new_chunks, intro) ==
    LET m == merge(receiver, <<chunk>>, text_separator) IN
    IF m.ok
    THEN [st EXCEPT !.new_chunks = new_chunks,
                    !.current_list_chunk = Some(NewEntry(m.val)),
                    !.potential_list_intro = intro,
                    !.potential_list_continuation = TRUE]
    ELSE [st EXCEPT !.ok = FALSE]

\* one iteration of the loop of CombineTextChunksIntoList.__call__, for the
\* i-th chunk: the local variables after it (ok = FALSE when a merge raised)
CombineTextChunksIntoList_step(self, heap, i, st) ==
    LET chunk == heap[i]
        flushed ==
            st.new_chunks
            \o (IF st.current_list_chunk # None THEN st.current_list_chunk ELSE <<>>)
            \o (IF st.potential_list_intro # None THEN st.potential_list_intro ELSE <<>>)
    IN
    IF chunk.chunk_type # TEXT
    THEN [st EXCEPT !.new_chunks = Append(flushed, InputEntry(i)),
                    !.current_list_chunk = None,
                    !.potential_list_intro = None,
                    !.potential_list_continuation = FALSE]
    ELSE IF HasListItem(chunk.text)
    THEN IF st.potential_list_intro # None
         THEN LET intro == model_copy(Deref(Get(st.potential_list_intro), heap),
                                      [chunk_type |-> LIST])
              IN IF st.current_list_chunk = None
                 THEN CombineTextChunksIntoList_merged(
                          st, intro, chunk, self.text_separator, st.new_chunks, None)
                 ELSE CombineTextChunksIntoList_merged(
                          st, intro, chunk, self.text_separator,
                          Append(st.new_chunks, Get(st.current_list_chunk)), None)
         ELSE IF st.current_list_chunk # None
         THEN CombineTextChunksIntoList_merged(
                  st, Deref(Get(st.current_list_chunk), heap), chunk,
                  self.text_separator, st.new_chunks, st.potential_list_intro)
         ELSE [st EXCEPT !.current_list_chunk =
                             Some(NewEntry(model_copy(chunk, [chunk_type |-> LIST]))),
                         !.potential_list_continuation = TRUE]
    ELSE IF /\ st.potential_list_continuation
            /\ st.current_list_chunk # None
            /\ \/ (IF chunk.text # <<>> /\ str_strip(chunk.text) # <<>>
                    THEN islower(chunk.text[1]) ELSE FALSE)
               \/ ~endswith(str_strip(chunk.text), {".", "!", "?"})
    THEN LET m == merge(Deref(Get(st.current_list_chunk), heap), <<chunk>>, <<" ">>) IN
         IF m.ok THEN [st EXCEPT !.current_list_chunk = Some(NewEntry(m.val))]
         ELSE [st EXCEPT !.ok = FALSE]
    ELSE IF endswith(str_strip(chunk.text), {":"})
    THEN [st EXCEPT !.new_chunks =
                        st.new_chunks
                        \o (IF st.current_list_chunk # None
                            THEN st.current_list_chunk ELSE <<>>),
                    !.current_list_chunk = None,
                    !.potential_list_intro = Some(InputEntry(i)),
                    !.potential_list_continuation = FALSE]
    ELSE [st EXCEPT !.new_chunks = Append(flushed, InputEntry(i)),
                    !.current_list_chunk = None,
                    !.potential_list_intro = None,
                    !.potential_list_continuation = FALSE]

RECURSIVE CombineTextChunksIntoList_loop(_, _, _)
\* the local variables after the loop has handled the first i chunks, or
\* ok = FALSE when one of these iterations raised
CombineTextChunksIntoList_loop(self, heap, i) ==
    IF i = 0 THEN CombineTextChunksIntoList_start
    ELSE LET st == CombineTextChunksIntoList_loop(self, heap, i - 1) IN
         IF st.ok THEN CombineTextChunksIntoList_step(self, heap, i, st) ELSE st

CombineTextChunksIntoList_call_dropping_intro(self, heap) ==
    LET st == CombineTextChunksIntoList_loop(self, heap, Len(heap)) IN
    IF ~st.ok THEN Raised("ValueError", heap)
    ELSE IF st.current_list_chunk # None
    THEN Result(Append(st.new_chunks, Get(st.current_list_chunk)), heap)
    ELSE Result(st.new_chunks, heap)

\* CombineTextChunksIntoList.__call__
CombineTextChunksIntoList_call(self, heap) ==
    LET st == CombineTextChunksIntoList_loop(self, heap, Len(heap)) IN
    IF ~st.ok THEN Raised("ValueError", heap)
    ELSE IF st.current_list_chunk # None
    THEN Result(Append(st.new_chunks, Get(st.current_list_chunk)), heap)
    ELSE IF st.potential_list_intro # None
    THEN Result(Append(st.new_chunks, Get(st.potential_list_intro)), heap)
    ELSE Result(st.new_chunks, heap)

-----------------------------------------------------------------------------
(* SplitTextIntoSentences: sentence extraction *)

ELLIPSIS == "<U+2026>"
\* the characters of [.!?…]
SentenceEnd == {".", "!", "?", ELLIPSIS}

\* SplitTextIntoSentencesBasic.common_abbreviations, as the texts they match
common_abbreviations ==
    << <<"e", "t", " ", "a", "l", ".">>, <<"e", "t", "c", ".">>,
       <<"i", ".", "e", ".">>, <<"e", ".", "g", ".">>, <<"v", "s", ".">>,
       <<"M", "r", ".">>, <<"M", "r", "s", ".">>, <<"D", "r", ".">>,
       <<"P", "r", "o", "f", ".">>, <<"I", "n", "c", ".">>, <<"L", "t", "d", ".">>,
       <<"C", "o", ".">>, <<"J", "r", ".">>, <<"S", "r", ".">>, <<"S", "t", ".">>,
       <<"A", "v", "e", ".">>, <<"B", "l", "v", "d", ".">>, <<"R", "d", ".">>,
       <<"P", "h", ".", "D", ".">>, <<"M", ".", "D", ".">> >>

RECURSIVE DigitsEnd(_, _)
\* where \d* (greedy) ends when it starts after the first p characters of t
DigitsEnd(t, p) ==
    IF p < Len(t) /\ t[p + 1] \in Digits THEN DigitsEnd(t, p + 1) ELSE p

RECURSIVE DotGroupsEnd(_, _)
\* where (\.\d+)* (greedy) ends when it starts after the first p characters
DotGroupsEnd(t, p) ==
    IF p + 1 < Len(t) /\ t[p + 1] = "." /\ t[p + 2] \in Digits
    THEN DotGroupsEnd(t, DigitsEnd(t, p + 1))
    ELSE p

\* the end of the match of number_pattern, \d+(\.\d+)+%?|v?\d+(\.\d+)+, that
\* starts after the first p characters of t; p when there is none
NumberMatchEnd(t, p) ==
    LET d1 == DigitsEnd(t, p)
        g1 == DotGroupsEnd(t, d1)
        v == IF p < Len(t) /\ t[p + 1] = "v" THEN 1 ELSE 0
        d2 == DigitsEnd(t, p + v)
        g2 == DotGroupsEnd(t, d2)
    IN IF d1 > p /\ g1 > d1
       THEN (IF g1 < Len(t) /\ t[g1 + 1] = "%" THEN g1 + 1 ELSE g1)
       ELSE IF d2 > p + v /\ g2 > d2 THEN g2
       ELSE p

RECURSIVE NumberPositions(_, _)
\* the positions of t that the matches of re.finditer(number_pattern, t) from
\* p on cover: each match is replaced by a placeholder __NUM_<start>__
NumberPositions(t, p) ==
    IF p >= Len(t) THEN {}
    ELSE LET e == NumberMatchEnd(t, p) IN
         IF e > p THEN ((p + 1)..e) \cup NumberPositions(t, e)
         ELSE NumberPositions(t, p + 1)

\* f"{abbr}(?![A-Z])" matches after the first p characters of the modified
\* text: `held` are the positions of t that placeholders have replaced so
\* far; a placeholder starts with "_", which is no upper-case letter
AbbreviationAt(t, held, abbr, p) ==
    /\ p + Len(abbr) <= Len(t)
    /\ \A k \in 1..Len(abbr) : (p + k) \notin held /\ t[p + k] = abbr[k]
    /\ p + Len(abbr) < Len(t) =>
          \/ (p + Len(abbr) + 1) \in held
          \/ \A k \in 1..Len(Uppers) : Uppers[k] # t[p + Len(abbr) + 1]

RECURSIVE AbbreviationPositions(_, _, _, _)
\* the positions that the matches of one abbreviation, from p on, cover
AbbreviationPositions(t, held, abbr, p) ==
    IF p >= Len(t) THEN {}
    ELSE IF AbbreviationAt(t, held, abbr, p)
    THEN ((p + 1)..(p + Len(abbr)))
         \cup AbbreviationPositions(t, held, abbr, p + Len(abbr))
    ELSE AbbreviationPositions(t, held, abbr, p + 1)

RECURSIVE PlaceholderPositions(_, _)
\* the positions of t that are inside placeholders in modified_text once the
\* numbers and the first n abbreviations have been replaced
PlaceholderPositions(t, n) ==
    IF n = 0 THEN NumberPositions(t, 0)
    ELSE LET held == PlaceholderPositions(t, n - 1) IN
         held \cup AbbreviationPositions(t, held, common_abbreviations[n], 0)

\* the character at position k of modified_text is one of [.!?…]
\* (placeholders contain none)
IsSentenceEnd(t, held, k) == k \notin held /\ t[k] \in SentenceEnd

RECURSIVE SentenceBodyEnd(_, _, _)
\* where [^.!?…]* (greedy) ends
SentenceBodyEnd(t, held, p) ==
    IF p < Len(t) /\ ~IsSentenceEnd(t, held, p + 1)
    THEN SentenceBodyEnd(t, held, p + 1) ELSE p

RECURSIVE SentenceMarksEnd(_, _, _)
\* where [.!?…]* (greedy) ends
SentenceMarksEnd(t, held, p) ==
    IF p < Len(t) /\ IsSentenceEnd(t, held, p + 1)
    THEN SentenceMarksEnd(t, held, p + 1) ELSE p

\* the end of the match of complete_sentence_pattern,
\* [^.!?…]+[.!?…]+(?=\s|\Z), that starts after the first p characters
\* of modified_text; p when there is none
SentenceMatchEnd(t, held, p) ==
    LET q == SentenceBodyEnd(t, held, p)
        r == SentenceMarksEnd(t, held, q)
    IN IF /\ q > p
          /\ r > q
          /\ (r = Len(t) \/ ((r + 1) \notin held /\ t[r + 1] \in Whitespace))
       THEN r ELSE p

RECURSIVE SentenceSpans(_, _, _)
\* complete_sentence_pattern.findall(modified_text): the matches from p on,
\* each as <<first position, last position>> in t
SentenceSpans(t, held, p) ==
    IF p >= Len(t) THEN <<>>
    ELSE LET e == SentenceMatchEnd(t, held, p) IN
         IF e > p THEN <<<<p + 1, e>>>> \o SentenceSpans(t, held, e)
         ELSE SentenceSpans(t, held, p + 1)

\* s.replace("\n", " ")
replace_newlines(t) == [k \in 1..Len(t) |-> IF t[k] = "\n" THEN " " ELSE t[k]]

\* SplitTextIntoSentencesBasic._extract_complete_sentences: the matches,
\* stripped, the empty ones dropped, placeholders put back (which gives the
\* characters of t again), newlines replaced by spaces
_extract_complete_sentences(text) ==
    LET held == PlaceholderPositions(text, Len(common_abbreviations))
        spans == SentenceSpans(text, held, 0)
        stripped == [k \in 1..Len(spans) |->
                        str_strip(SubSeq(text, spans[k][1], spans[k][2]))]
        sentences == SelectSeq(stripped, LAMBDA x : x # <<>>)
    IN [k \in 1..Len(sentences) |-> replace_newlines(sentences[k])]

\* t.find(s): the number of characters before the first occurrence, or -1
str_find(t, s) ==
    LET at == {i \in 0..(Len(t) - Len(s)) : SubSeq(t, i + 1, i + Len(s)) = s} IN
    IF at = {} THEN -1 ELSE Min(at)

\* t[:a] and t[b:], for indices of either sign
slice_to(t, a) ==
    LET n == IF a >= 0 THEN a ELSE Len(t) + a IN
    SubSeq(t, 1, IF n < 0 THEN 0 ELSE IF n > Len(t) THEN Len(t) ELSE n)
slice_from(t, b) ==
    LET n == IF b >= 0 THEN b ELSE Len(t) + b IN
    SubSeq(t, (IF n < 0 THEN 0 ELSE n) + 1, Len(t))

\* t.endswith(s) for a text s
endswith_text(t, s) ==
    Len(s) <= Len(t) /\ SubSeq(t, Len(t) - Len(s) + 1, Len(t)) = s

RECURSIVE segment_at_marks(_, _, _)
\* the text cut after every run of white space that follows one of [.!?…];
\* `from` is the number of characters before the current segment, p the
\* position the scan has reached
segment_at_marks(t, from, p) ==
    IF p >= Len(t)
    THEN (IF from < Len(t) THEN <<SubSeq(t, from + 1, Len(t))>> ELSE <<>>)
    ELSE IF /\ p > from
            /\ t[p] \in Whitespace
            /\ t[p + 1] \notin Whitespace
            /\ \E k \in (from + 1)..p :
                  /\ t[k] \in SentenceEnd
                  /\ \A j \in (k + 1)..p : t[j] \in Whitespace
    THEN <<SubSeq(t, from + 1, p)>> \o segment_at_marks(t, p, p + 1)
    ELSE segment_at_marks(t, from, p + 1)

\* pysbd.Segmenter(language="en").segment(text): the library is no part of
\* this repository; the model knows two segmenters, one that returns the text
\* as one segment and one that cuts after the white space following [.!?…]
segment(segmenter, t) ==
    IF segmenter = "whole" THEN (IF t = <<>> THEN <<>> ELSE <<t>>)
    ELSE segment_at_marks(t, 0, 0)

\* SplitTextIntoSentencesPysbd._extract_complete_sentences
SplitTextIntoSentencesPysbd_extract_complete_sentences(self, text) ==
    IF str_strip(text) = <<>> THEN <<>>
    ELSE LET processed_text == replace_newlines(text)
             segments == segment(self.segmenter, processed_text)
             strs == [k \in 1..Len(segments) |-> str_strip(segments[k])]
             complete(segment_str) ==
                 /\ endswith(segment_str, SentenceEnd)
                 /\ ~\E k \in 1..Len(common_abbreviations) :
                        endswith_text(segment_str, common_abbreviations[k])
                 /\ str_find(processed_text, segment_str) >= 0
         IN SelectSeq(strs, complete)

\* self._extract_complete_sentences(text), by the class of self
extract_complete_sentences(self, text) ==
    IF self.cls = "SplitTextIntoSentencesPysbd"
    THEN SplitTextIntoSentencesPysbd_extract_complete_sentences(self, text)
    ELSE _extract_complete_sentences(text)

RECURSIVE remaining_text(_, _)
\* chunk_processors.py:581-587: the text left when each sentence, in turn,
\* has been cut out at the place str.find reports (-1 when it is not found)
remaining_text(text, sentences) ==
    IF sentences = <<>> THEN text
    ELSE LET sentence_start == str_find(text, Head(sentences))
             sentence_end == sentence_start + Len(Head(sentences))
         IN remaining_text(
                str_strip(slice_to(text, sentence_start) \o slice_from(text, sentence_end)),
                Tail(sentences))

-----------------------------------------------------------------------------
(* SplitTextIntoSentences: the loop shared by the two splitters *)

\* SplitTextIntoSentencesBasic.__call__: the local variables before the loop
\* (text and current_chunk are unset until a TEXT chunk is handled)
SplitTextIntoSentences_start ==
    [ok |-> TRUE,
     new_chunks |-> <<>>,
     incomplete_chunk |-> None,
     skipped_chunk_buffer |-> <<>>,
     text |-> None,
     current_chunk |-> None]

\* incomplete_chunk, if any, as an element of new_chunks
SplitTextIntoSentences_flushed(st) ==
    IF st.incomplete_chunk # None THEN <<NewEntry(Get(st.incomplete_chunk))>> ELSE <<>>

SplitTextIntoSentences_text_unstripped(incomplete_chunk, chunk) ==
    incomplete_chunk.text \o <<" ">> \o chunk.text

\* f"{incomplete_chunk.text} {chunk.text}".strip(): the working text of a
\* TEXT chunk that arrives while a sentence is carried
SplitTextIntoSentences_text(incomplete_chunk, chunk) ==
    str_strip(incomplete_chunk.text \o <<" ">> \o chunk.text)

\* one iteration of the loop for the i-th chunk: the local variables after
\* it (ok = FALSE when the merge raised)
SplitTextIntoSentences_step(self, heap, i, st) ==
    LET chunk == heap[i] IN
    IF \E k \in 1..Len(self.chunk_types_to_ignore) :
           self.chunk_types_to_ignore[k] = chunk.chunk_type
    THEN [st EXCEPT !.skipped_chunk_buffer = Append(@, InputEntry(i))]
    ELSE IF chunk.chunk_type # TEXT
    THEN [st EXCEPT !.new_chunks =
                        @ \o SplitTextIntoSentences_flushed(st) \o <<InputEntry(i)>>
                          \o st.skipped_chunk_buffer,
                    !.incomplete_chunk = None,
                    !.skipped_chunk_buffer = <<>>]
    ELSE LET carried == st.incomplete_chunk # None
             m == merge(Get(st.incomplete_chunk), <<chunk>>, <<" ">>)
             text == IF carried
                     THEN SplitTextIntoSentences_text(Get(st.incomplete_chunk), chunk)
                     ELSE chunk.text
             current_chunk == IF carried THEN NewEntry([m.val EXCEPT !.text = text])
                              ELSE InputEntry(i)
             current == Deref(current_chunk, heap)
             \* with nothing carried the buffer is emitted before the sentences
             before == IF carried THEN st
                       ELSE [st EXCEPT !.new_chunks = @ \o st.skipped_chunk_buffer,
                                       !.skipped_chunk_buffer = <<>>]
             complete_sentences == extract_complete_sentences(self, text)
             remaining == remaining_text(text, complete_sentences)
         IN IF carried /\ ~m.ok THEN [st EXCEPT !.ok = FALSE]
            ELSE [ok |-> TRUE,
                  new_chunks |->
                      before.new_chunks
                      \o [k \in 1..Len(complete_sentences) |->
                             NewEntry(model_copy(current, [text |-> complete_sentences[k]]))]
                      \o before.skipped_chunk_buffer,
                  incomplete_chunk |->
                      IF remaining # <<>>
                      THEN Some(model_copy(current, [text |-> remaining]))
                      ELSE None,
                  skipped_chunk_buffer |-> <<>>,
                  text |-> Some(text),
                  current_chunk |-> Some(current)]

RECURSIVE SplitTextIntoSentences_loop(_, _, _)
\* the local variables after the loop has handled the first i chunks
SplitTextIntoSentences_loop(self, heap, i) ==
    IF i = 0 THEN SplitTextIntoSentences_start
    ELSE LET st == SplitTextIntoSentences_loop(self, heap, i - 1) IN
         IF st.ok THEN SplitTextIntoSentences_step(self, heap, i, st) ELSE st

\* the ignored chunks still buffered after the loop are not returned
SplitTextIntoSentencesBasic_call_dropping_buffer(self, heap) ==
    LET st == SplitTextIntoSentences_loop(self, heap, Len(heap)) IN
    IF ~st.ok THEN Raised("ValueError", heap)
    ELSE Result(st.new_chunks \o SplitTextIntoSentences_flushed(st), heap)

\* SplitTextIntoSentencesBasic.__call__ (inherited by the pysbd splitter)
SplitTextIntoSentencesBasic_call(self, heap) ==
    LET st == SplitTextIntoSentences_loop(self, heap, Len(heap)) IN
    IF ~st.ok THEN Raised("ValueError", heap)
    ELSE Result(st.new_chunks \o SplitTextIntoSentences_flushed(st)
                    \o st.skipped_chunk_buffer,
                heap)

\* SplitTextIntoSentences.__call__
SplitTextIntoSentences_call(self, heap) ==
    SplitTextIntoSentencesBasic_call(self.splitter, heap)

-----------------------------------------------------------------------------
(* Inputs of the Chunk harness *)

MaxOthers == 2

BoxA == <<<<0, 0>>, <<1, 0>>, <<1, 1>>, <<0, 1>>>>
BoxB == <<<<2, 3>>, <<5, 3>>, <<5, 4>>, <<2, 4>>>>
\* invalid polygons: three points, xmin = xmax, ymin > ymax
BoxThree == <<<<0, 0>>, <<1, 0>>, <<1, 1>>>>
BoxFlatX == <<<<1, 0>>, <<1, 0>>, <<1, 1>>, <<1, 1>>>>
BoxFlipY == <<<<0, 1>>, <<1, 1>>, <<1, 0>>, <<0, 0>>>>

Letters == <<"a", "b", "c", "d">>
TextOfId(i) == <<Letters[(i % 4) + 1]>>

Layouts ==
    { <<None, None>>,
      <<Some(<<BoxA>>), Some(<<1>>)>>,
      <<Some(<<BoxB, BoxA>>), Some(<<2, 1>>)>>,
      <<Some(<<BoxA>>), None>>,
      <<None, Some(<<1>>)>>,
      <<Some(<<BoxA, BoxB>>), Some(<<1>>)>> }

BadBoxes == { <<BoxThree>>, <<BoxA, BoxFlatX>>, <<BoxFlipY>> }

\* Keyword arguments the harness constructs chunks from.
CandKwargs ==
    { [id |-> i, text |-> TextOfId(i), chunk_type |-> TEXT,
       bounding_boxes |-> l[1], pages |-> l[2]] : i \in 0..2, l \in Layouts }
    \cup
    { [id |-> i, text |-> TextOfId(i), chunk_type |-> TITLE,
       bounding_boxes |-> l[1], pages |-> l[2],
       heading |-> Some(1), tokens |-> Some(<<"t">>),
       serialized_text |-> Some(<<"s">>)] :
         i \in 0..2, l \in {<<None, None>>, <<Some(<<BoxA>>), Some(<<1>>)>>} }
    \cup
    { [id |-> 0, text |-> <<"x">>, chunk_type |-> TEXT,
       bounding_boxes |-> Some(b), pages |-> Some(<<1>>)] : b \in BadBoxes }
    \cup
    { [idx |-> 0, text |-> <<"x">>, chunk_type |-> TEXT,
       bounding_boxes |-> None, pages |-> None],
      [id |-> -1, text |-> <<"x">>, chunk_type |-> TEXT,
       bounding_boxes |-> None, pages |-> None] }

-----------------------------------------------------------------------------
(* The Chunk harness: construct chunks, then merge the first with the rest *)

\* the harnesses that a specification does not run
ChunkOff ==
    /\ c_pc = "off"
    /\ c_live = <<>>
    /\ c_kw = None
    /\ c_ok = FALSE
    /\ c_sep = <<" ">>
    /\ c_ret = None

ProcessorOff ==
    /\ p_pc = "off"
    /\ p_args = [cls |-> "none"]
    /\ p_self = None
    /\ objs = <<>>
    /\ p_before = <<>>
    /\ p_calls = 0
    /\ p_raised = FALSE
    /\ p_out = <<>>
    /\ p_first = <<>>

PipelineOff ==
    /\ pl_pc = "off"
    /\ pl_self = None
    /\ pl_document = <<>>
    /\ pl_batch_size = None
    /\ pl_chunks = <<>>
    /\ pl_i = 0
    /\ pl_log = <<>>
    /\ pl_ret = None

CliOff ==
    /\ f_pc = "off"
    /\ f_args = None
    /\ f_ret = <<>>

ChunkInit ==
    /\ c_pc = "build"
    /\ c_live = <<>>
    /\ c_kw = None
    /\ c_ok = FALSE
    /\ c_sep = <<" ">>
    /\ c_ret = None
    /\ ProcessorOff
    /\ PipelineOff
    /\ CliOff

\* Chunk(**kw)
Construct(kw) ==
    /\ c_pc = "build"
    /\ Len(c_live) < 1 + MaxOthers
    /\ LET r == NewChunk(kw) IN
       /\ c_kw' = Some(kw)
       /\ c_ok' = r.ok
       /\ c_live' = IF r.ok THEN Append(c_live, r.val) ELSE c_live
    /\ UNCHANGED <<c_pc, c_sep, c_ret>>
    /\ UNCHANGED <<procVars, pipeVars, cliVars>>

\* c_live[1].merge(c_live[2..], text_separator)
Merge(text_separator) ==
    /\ c_pc = "build"
    /\ c_live # <<>>
    /\ LET r == merge(Head(c_live), Tail(c_live), text_separator) IN
       /\ c_pc' = IF r.ok THEN "merged" ELSE "raised"
       /\ c_ret' = IF r.ok THEN Some(r.val) ELSE None
    /\ c_sep' = text_separator
    /\ UNCHANGED <<c_live, c_kw, c_ok>>
    /\ UNCHANGED <<procVars, pipeVars, cliVars>>

ChunkNext ==
    \/ \E kw \in CandKwargs : Construct(kw)
    \/ \E sep \in {<<" ">>, <<"\n">>} : Merge(sep)

ChunkSpec == ChunkInit /\ [][ChunkNext]_vars

-----------------------------------------------------------------------------
(* Properties of Chunk and Chunk.merge, checked under ChunkSpec *)

MergeCalled == c_pc \in {"merged", "raised"}
Receiver == c_live[1]
Others == Tail(c_live)
Returned == Get(c_ret)

NullabilityDiffers(prop) ==
    \E k \in 1..Len(Others) : (Others[k][prop] = None) # (Receiver[prop] = None)

\* C2: a merge with a non-empty list of others raises exactly when, for
\* bounding_boxes or for pages, some other chunk is null where the receiver
\* is not, or the reverse; it returns only when both fields are uniformly
\* null or uniformly non-null.
C2_MergeFailsOnMixedNullability ==
    (MergeCalled /\ Others # <<>>) =>
        ((c_pc = "raised") <=>
            (NullabilityDiffers("bounding_boxes") \/ NullabilityDiffers("pages")))

C2_Witness ==
    /\ c_pc = "raised"
    /\ Others # <<>>
    /\ ~NullabilityDiffers("bounding_boxes")
    /\ NullabilityDiffers("pages")

RECURSIVE SumLen(_, _)
SumLen(chunks, prop) ==
    IF chunks = <<>> THEN 0
    ELSE Len(Get(Head(chunks)[prop])) + SumLen(Tail(chunks), prop)

\* the items of field prop of the chunks before index k
Offset(chunks, prop, k) == SumLen(SubSeq(chunks, 1, k - 1), prop)

ConcatenatesInOrder(prop) ==
    IF Receiver[prop] = None THEN Returned[prop] = None
    ELSE /\ Returned[prop] # None
         /\ Len(Get(Returned[prop])) = SumLen(c_live, prop)
         /\ \A k \in 1..Len(c_live) : \A j \in 1..Len(Get(c_live[k][prop])) :
                Get(Returned[prop])[Offset(c_live, prop, k) + j]
                    = Get(c_live[k][prop])[j]

\* C3: a merge that returns yields the receiver's text followed by the
\* others' texts in order, joined by the separator; the receiver's
\* chunk_type; and bounding_boxes and pages (when present) that are the
\* concatenation receiver, c1, ..., cn, of length the sum of the inputs'.
C3_MergeConcatenates ==
    (c_pc = "merged") =>
        /\ Returned.text = str_join(c_sep, [k \in 1..Len(c_live) |-> c_live[k].text])
        /\ Returned.chunk_type = Receiver.chunk_type
        /\ ConcatenatesInOrder("bounding_boxes")
        /\ ConcatenatesInOrder("pages")

C3_Witness ==
    /\ c_pc = "merged"
    /\ Len(Others) = 2
    /\ Receiver.text # Others[2].text
    /\ Receiver.chunk_type # Others[1].chunk_type
    /\ Returned.bounding_boxes # None
    /\ Len(Get(Returned.bounding_boxes)) >= 4
    /\ Len(Get(Returned.pages)) >= 4

\* C4: every merge that returns, a merge with no others included, returns a
\* chunk with heading, tokens and serialized_text unset.
C4_MergeDropsOptionals ==
    (c_pc = "merged") =>
        /\ Returned.heading = None
        /\ Returned.tokens = None
        /\ Returned.serialized_text = None

\* C5: the id of a chunk returned by merge is the minimum of the ids of the
\* receiver and the other merged chunks.
C5_MergeIdIsMinimum ==
    (c_pc = "merged") =>
        /\ \E k \in 1..Len(c_live) : Returned.id = c_live[k].id
        /\ \A k \in 1..Len(c_live) : Returned.id <= c_live[k].id

C5_Witness ==
    /\ c_pc = "merged"
    /\ Len(Others) = 2
    /\ Returned.id < Receiver.id
    /\ Returned.id = Others[2].id
    /\ Others[2].id < Others[1].id

ExistingChunks ==
    {c_live[k] : k \in 1..Len(c_live)} \cup {c_ret[k] : k \in 1..Len(c_ret)}

\* C6: every chunk that exists and has both bounding_boxes and pages has as
\* many bounding boxes as pages.
C6_BoxesMatchPages ==
    \A c \in ExistingChunks :
        (c.bounding_boxes # None /\ c.pages # None)
            => Len(Get(c.bounding_boxes)) = Len(Get(c.pages))

WellFormedPolygon(box) ==
    /\ Len(box) = 4
    /\ box[1][1] < box[2][1]
    /\ box[1][2] < box[3][2]

WellFormedBoxes(bounding_boxes) ==
    \A k \in 1..Len(bounding_boxes) : WellFormedPolygon(bounding_boxes[k])

\* C7: Chunk(...) with bounding_boxes present returns only if every polygon
\* has exactly 4 points with x1 < x2 and y1 < y2 (x1, y1 from point 0, x2
\* from point 1, y2 from point 2); so every chunk that exists, a merge
\* result included, has well-formed bounding boxes.
C7_BoundingBoxesValidated ==
    /\ (c_kw # None /\ c_ok /\ "bounding_boxes" \in DOMAIN Get(c_kw)
            /\ Get(c_kw).bounding_boxes # None)
          => WellFormedBoxes(Get(Get(c_kw).bounding_boxes))
    /\ \A c \in ExistingChunks :
          c.bounding_boxes # None => WellFormedBoxes(Get(c.bounding_boxes))

C7_Witness ==
    /\ c_kw # None
    /\ ~c_ok
    /\ RequiredFields \subseteq DOMAIN Get(c_kw)
    /\ Get(c_kw).id >= 0
    /\ Get(c_kw).bounding_boxes # None
    /\ ~WellFormedBoxes(Get(Get(c_kw).bounding_boxes))
    /\ \A k \in 1..Len(Get(Get(c_kw).bounding_boxes)) :
          Len(Get(Get(c_kw).bounding_boxes)[k]) = 4

-----------------------------------------------------------------------------
(* The processor harness: construct one processor, call it on a list of     *)
(* chunk objects, call it again on the same list                            *)

MaxChunks == 3

\* an unknown splitter type selects the library-backed splitter
SplitTextIntoSentences_init_defaulting(args) ==
    LET splitter_type == str_lower(args.splitter_type) IN
    IF splitter_type = <<"b", "a", "s", "i", "c">>
    THEN Return([cls |-> args.cls, splitter_type |-> splitter_type,
                 splitter |-> [cls |-> "SplitTextIntoSentencesBasic",
                               chunk_types_to_ignore |-> args.chunk_types_to_ignore]])
    ELSE Return([cls |-> args.cls, splitter_type |-> splitter_type,
                 splitter |-> [cls |-> "SplitTextIntoSentencesPysbd",
                               chunk_types_to_ignore |-> args.chunk_types_to_ignore,
                               segmenter |-> args.segmenter]])

\* SplitTextIntoSentences.__init__: the router builds the splitter its
\* lower-cased splitter_type names, or raises
SplitTextIntoSentences_init(args) ==
    LET splitter_type == str_lower(args.splitter_type) IN
    IF splitter_type = <<"p", "y", "s", "b", "d">>
    THEN Return([cls |-> args.cls, splitter_type |-> splitter_type,
                 splitter |-> [cls |-> "SplitTextIntoSentencesPysbd",
                               chunk_types_to_ignore |-> args.chunk_types_to_ignore,
                               segmenter |-> args.segmenter]])
    ELSE IF splitter_type = <<"b", "a", "s", "i", "c">>
    THEN Return([cls |-> args.cls, splitter_type |-> splitter_type,
                 splitter |-> [cls |-> "SplitTextIntoSentencesBasic",
                               chunk_types_to_ignore |-> args.chunk_types_to_ignore]])
    ELSE Raise("ValueError")

\* The constructors: the attributes __init__ sets from its arguments.
Processor_init(args) ==
    CASE args.cls = "ChunkTypeFilter" ->
            LET types == filter_and_warn_for_unknown_types(args.types_to_remove) IN
            IF types.ok THEN Return([cls |-> args.cls, types_to_remove |-> types.val])
            ELSE types
      [] args.cls = "AddHeadings" ->
            Return([cls |-> args.cls,
                    heading_types |-> {TITLE, TITLE_LOWER_CASE},
                    subheading_types |-> {SECTION_HEADING, PAGE_HEADER}])
      [] args.cls = "RemoveRegexPattern" ->
            Return([args EXCEPT !.chunk_types =
                        IF args.chunk_types = <<>> THEN None
                        ELSE Some(args.chunk_types)])
      [] args.cls = "RemoveFalseCheckboxes" ->
            Return([cls |-> args.cls, pattern |-> PATTERN_CHECKBOX,
                    replace_with |-> <<" ">>, skip_partial_replacements |-> FALSE,
                    chunk_types |-> None, ignore_case |-> FALSE])
      [] args.cls = "RemoveMisclassifiedPageNumbers" ->
            Return([cls |-> args.cls, pattern |-> PATTERN_PAGE_NUMBER,
                    replace_with |-> <<" ">>, skip_partial_replacements |-> TRUE,
                    chunk_types |-> Some(<<PAGE_HEADER, PAGE_FOOTER>>),
                    ignore_case |-> TRUE])
      [] args.cls = "SplitTextIntoSentences" -> SplitTextIntoSentences_init(args)
      [] OTHER -> Return(args)

\* RemoveRepeatedAdjacentChunks: the default of chunk_types
DEFAULT_REPEATED_TYPES == <<SECTION_HEADING, TITLE, PAGE_HEADER, PAGE_FOOTER, FOOT_NOTE>>

\* SplitTextIntoSentences: the default of chunk_types_to_ignore
DEFAULT_IGNORED_TYPES == <<PAGE_HEADER, PAGE_FOOTER, FOOT_NOTE>>

\* The constructor calls the harness makes.  For SplitTextIntoSentences the
\* record also says which segmenter the installed pysbd is.
ProcessorArgs ==
    { [cls |-> "IdentityChunkProcessor"] }
    \cup { [cls |-> "ChunkTypeFilter", types_to_remove |-> ts] :
             ts \in { <<>>, <<PAGE_NUMBER>>, <<PAGE_NUMBER, TABLE>>,
                      <<PAGE_NUMBER, "bogus">> } }
    \cup { [cls |-> "RemoveShortTableCells", min_chars |-> m, remove_all_numeric |-> n] :
             m \in {0, 5}, n \in BOOLEAN }
    \cup { [cls |-> "RemoveChunksUnderLength", min_num_characters |-> m] : m \in {0, 1, 3} }
    \cup { [cls |-> "RemoveRepeatedAdjacentChunks", chunk_types |-> ts, ignore_case |-> ic] :
             ts \in {DEFAULT_REPEATED_TYPES, <<TITLE>>}, ic \in BOOLEAN }
    \cup { [cls |-> "AddHeadings"] }
    \cup { [cls |-> "RemoveFalseCheckboxes"], [cls |-> "RemoveMisclassifiedPageNumbers"] }
    \cup { [cls |-> "RemoveRegexPattern", pattern |-> pt, replace_with |-> <<" ">>,
            skip_partial_replacements |-> sk, chunk_types |-> ts, ignore_case |-> ic] :
             pt \in {PATTERN_CHECKBOX, PATTERN_PAGE_NUMBER}, sk \in BOOLEAN,
             ts \in {<<>>, <<PAGE_HEADER>>}, ic \in BOOLEAN }
    \cup { [cls |-> "CombineSuccessiveSameTypeChunks", chunk_types_to_combine |-> ts,
            text_separator |-> <<"\n">>, merge_into_chunk_type |-> mt] :
             ts \in {<<TEXT>>, <<TEXT, LIST>>}, mt \in {None, Some(LIST), Some(TITLE)} }
    \cup { [cls |-> "CombineTextChunksIntoList", text_separator |-> sep] :
             sep \in {<<"\n">>, <<" ">>} }
    \cup { [cls |-> "SplitTextIntoSentences", splitter_type |-> st[1],
            chunk_types_to_ignore |-> st[3], segmenter |-> st[2]] :
             st \in { <<<<"p", "y", "s", "b", "d">>, "whole", DEFAULT_IGNORED_TYPES>>,
                      <<<<"p", "y", "s", "b", "d">>, "at_marks", DEFAULT_IGNORED_TYPES>>,
                      <<<<"B", "a", "s", "i", "c">>, "whole", DEFAULT_IGNORED_TYPES>>,
                      <<<<"b", "a", "s", "i", "c">>, "whole", <<TABLE>> >>,
                      <<<<"n", "l", "t", "k">>, "whole", DEFAULT_IGNORED_TYPES>> } }

RegexClasses == {"RemoveRegexPattern", "RemoveFalseCheckboxes", "RemoveMisclassifiedPageNumbers"}

Plain(type, text) == [chunk_type |-> type, text |-> text, bounding_boxes |-> None, pages |-> None]
Boxed(type, text) ==
    [chunk_type |-> type, text |-> text, bounding_boxes |-> Some(<<BoxA>>), pages |-> Some(<<1>>)]

BoxedB(type, text) ==
    [chunk_type |-> type, text |-> text, bounding_boxes |-> Some(<<BoxB>>), pages |-> Some(<<2>>)]

\* a chunk that is given a heading when it is constructed
WithHeading(atom) ==
    [chunk_type |-> atom.chunk_type, text |-> atom.text,
     bounding_boxes |-> atom.bounding_boxes, pages |-> atom.pages, heading |-> TRUE]

\* The chunks the input lists of a class are made of; an empty text stands
\* for "the letter of the chunk's position".
Atoms(args) ==
    LET cls == args.cls
        pattern == IF cls = "RemoveFalseCheckboxes" THEN PATTERN_CHECKBOX
                   ELSE IF cls = "RemoveMisclassifiedPageNumbers" THEN PATTERN_PAGE_NUMBER
                   ELSE args.pattern
    IN
    CASE cls = "ChunkTypeFilter" -> {Plain(t, <<>>) : t \in {TEXT, PAGE_NUMBER, TABLE}}
      [] cls = "RemoveShortTableCells" ->
            {Plain(TABLE_CELL, t) :
                t \in { <<"s", "h", "o", "r", "t">>, <<"s", "h", "o", "r">>,
                        <<"1", "2", "3", ".", "4", "5">>,
                        <<"-", "1", "2", ",", "3", ".", "4">>,
                        <<" ", "7", " ">>, <<"1", ".", "2", ".", "3">> }}
            \cup {Plain(TEXT, t) : t \in {<<"1", "2", "3", ".", "4", "5">>, <<"a", "b">>}}
      [] cls = "RemoveChunksUnderLength" ->
            {Plain(ty, t) : ty \in {TEXT, TITLE},
                            t \in {<<" ">>, <<"a", "b">>, <<"a", "b", "c">>}}
      [] cls = "RemoveRepeatedAdjacentChunks" ->
            {Plain(ty, t) : ty \in {TITLE, PAGE_HEADER, TEXT},
                            t \in {<<"A", "b">>, <<"a", "b">>, <<"c", "d">>}}
      [] cls = "AddHeadings" ->
            {Plain(ty, <<>>) : ty \in {TITLE, SECTION_HEADING, PAGE_HEADER, TEXT}}
            \cup {WithHeading(Plain(ty, <<>>)) : ty \in {TITLE, TEXT}}
      [] cls \in RegexClasses /\ pattern = PATTERN_PAGE_NUMBER ->
            {Plain(PAGE_HEADER, t) :
                t \in { <<"1", "2">>, <<"P", "a", "g", "e", " ", "3">>,
                        <<" ", "1", "2", " ">>, <<"p", " ", "1">> }}
            \cup {Plain(PAGE_FOOTER, <<"p", "a", "g", "e", "7">>),
                  Plain(TEXT, <<"1", "2">>)}
      [] cls \in RegexClasses /\ pattern = PATTERN_CHECKBOX ->
            {Plain(PAGE_HEADER, <<":", "s", "e", "l", "e", "c", "t", "e", "d", ":">>)}
            \cup {Plain(TEXT, t) :
                t \in { <<":", "s", "e", "l", "e", "c", "t", "e", "d", ":">>,
                        <<"a", " ", ":", "u", "n", "s", "e", "l", "e", "c", "t", "e", "d",
                          ":", " ", "b">>,
                        <<":", "S", "e", "l", "e", "c", "t", "e", "d", ":", " ", "x">>,
                        <<"a", "b">> }}
      [] cls = "CombineSuccessiveSameTypeChunks" ->
            {Plain(ty, <<>>) : ty \in {TEXT, LIST, TABLE}}
            \cup {Boxed(ty, <<>>) : ty \in {TEXT, LIST, TABLE}}
      [] cls = "CombineTextChunksIntoList" ->
            {Plain(TEXT, t) :
                t \in { <<"I", ":">>, <<"-", "x">>, <<"M">>,
                        <<"D", "o", "n", "e", ".">>, <<"m", "o", "r", "e", ".">>,
                        <<" ", "U", ".">>, <<"a", "\n", "1", ")">> }}
            \cup {Plain(TABLE, <<"t">>), Boxed(TEXT, <<BULLET, "y">>)}
      [] cls = "SplitTextIntoSentences" /\ args.chunk_types_to_ignore # DEFAULT_IGNORED_TYPES ->
            {Plain(TEXT, t) : t \in { <<"a">>, <<"b", ".">>, <<"a", ".", "b", " ", "c", ".">> }}
            \cup {Plain(PAGE_FOOTER, <<"f">>), Plain(TABLE, <<"t">>)}
      [] cls = "SplitTextIntoSentences" /\ args.chunk_types_to_ignore = DEFAULT_IGNORED_TYPES ->
            {Plain(TEXT, t) :
                t \in { <<"a">>, <<"b", ".">>,
                        <<"a", ".", "b", " ", "c", ".">>, <<" ">>,
                        <<"D", "r", ".", " ", "W", ".">>, <<"x", "\n", "y">> }}
            \cup {Plain(PAGE_FOOTER, <<"f">>), Plain(TABLE, <<"t">>),
                  Boxed(TEXT, <<"k">>), BoxedB(TEXT, <<"l", ".", " ", "m">>)}
      [] OTHER -> {Plain(TEXT, <<>>), Plain(TITLE, <<>>)}

\* The chunk objects of an input list: built by the constructor, ids in list
\* order as parser_output_to_chunks numbers them.  A heading given at
\* construction is a reference to the first chunk of the list.
MkChunks(atoms) ==
    [i \in 1..Len(atoms) |->
        NewChunk([id |-> i - 1,
                  text |-> IF atoms[i].text = <<>> THEN TextOfId(i - 1) ELSE atoms[i].text,
                  chunk_type |-> atoms[i].chunk_type,
                  bounding_boxes |-> atoms[i].bounding_boxes,
                  pages |-> atoms[i].pages,
                  heading |-> IF "heading" \in DOMAIN atoms[i] /\ i > 1
                              THEN Some(1) ELSE None]).val]

\* the longest input list of a class: heading chains need one chunk more
InputLen(args) == IF args.cls = "AddHeadings" THEN MaxChunks + 1 ELSE MaxChunks

Inputs(args) == {MkChunks(atoms) : atoms \in SeqsUpTo(Atoms(args), InputLen(args))}

Init ==
    /\ ChunkOff
    /\ PipelineOff
    /\ CliOff
    /\ p_pc = "new"
    /\ p_args \in ProcessorArgs
    /\ p_self = None
    /\ objs \in Inputs(p_args)
    /\ p_before = objs
    /\ p_calls = 0
    /\ p_raised = FALSE
    /\ p_out = <<>>
    /\ p_first = <<>>

\* cls(**args)
ProcessorInit ==
    /\ p_pc = "new"
    /\ LET r == Processor_init(p_args) IN
       /\ p_pc' = IF r.ok THEN "ready" ELSE "init_raised"
       /\ p_self' = IF r.ok THEN Some(r.val) ELSE None
    /\ UNCHANGED <<p_args, objs, p_before, p_calls, p_raised, p_out, p_first>>
    /\ UNCHANGED <<chunkVars, pipeVars, cliVars>>

CanCall(classes) ==
    /\ p_pc = "ready"
    /\ p_calls < 2
    /\ Get(p_self).cls \in classes

\* the call ends with result r: the returned list is recorded as it is on
\* return, the caller's objects are as the call left them
CallEnds(r) ==
    /\ p_before' = objs
    /\ objs' = r.objs
    /\ p_raised' = ~r.ok
    /\ p_out' = [k \in 1..Len(r.out) |->
                    [ref |-> r.out[k].ref, val |-> Deref(r.out[k], r.objs)]]
    /\ p_first' = IF p_calls = 0 THEN p_out' ELSE p_first
    /\ p_calls' = p_calls + 1
    /\ UNCHANGED <<p_pc, p_args, p_self>>
    /\ UNCHANGED <<chunkVars, pipeVars, cliVars>>

IdentityChunkProcessor__call__ ==
    /\ CanCall({"IdentityChunkProcessor"})
    /\ CallEnds(IdentityChunkProcessor_call(Get(p_self), objs))

ChunkTypeFilter__call__ ==
    /\ CanCall({"ChunkTypeFilter"})
    /\ CallEnds(ChunkTypeFilter_call(Get(p_self), objs))

RemoveShortTableCells__call__ ==
    /\ CanCall({"RemoveShortTableCells"})
    /\ CallEnds(RemoveShortTableCells_call(Get(p_self), objs))

RemoveChunksUnderLength__call__ ==
    /\ CanCall({"RemoveChunksUnderLength"})
    /\ CallEnds(RemoveChunksUnderLength_call(Get(p_self), objs))

RemoveRepeatedAdjacentChunks__call__ ==
    /\ CanCall({"RemoveRepeatedAdjacentChunks"})
    /\ CallEnds(RemoveRepeatedAdjacentChunks_call(Get(p_self), objs))

AddHeadings__call__ ==
    /\ CanCall({"AddHeadings"})
    /\ CallEnds(AddHeadings_call(Get(p_self), objs))

RemoveRegexPattern__call__ ==
    /\ CanCall(RegexClasses)
    /\ CallEnds(RemoveRegexPattern_call(Get(p_self), objs))

CombineSuccessiveSameTypeChunks__call__ ==
    /\ CanCall({"CombineSuccessiveSameTypeChunks"})
    /\ CallEnds(CombineSuccessiveSameTypeChunks_call(Get(p_self), objs))

CombineTextChunksIntoList__call__ ==
    /\ CanCall({"CombineTextChunksIntoList"})
    /\ CallEnds(CombineTextChunksIntoList_call(Get(p_self), objs))

SplitTextIntoSentences__call__ ==
    /\ CanCall({"SplitTextIntoSentences"})
    /\ CallEnds(SplitTextIntoSentences_call(Get(p_self), objs))

Next ==
    \/ ProcessorInit
    \/ IdentityChunkProcessor__call__
    \/ ChunkTypeFilter__call__
    \/ RemoveShortTableCells__call__
    \/ RemoveChunksUnderLength__call__
    \/ RemoveRepeatedAdjacentChunks__call__
    \/ AddHeadings__call__
    \/ RemoveRegexPattern__call__
    \/ CombineSuccessiveSameTypeChunks__call__
    \/ CombineTextChunksIntoList__call__
    \/ SplitTextIntoSentences__call__

Spec == Init /\ [][Next]_vars

-----------------------------------------------------------------------------
(* Properties of the chunk processors, checked under Spec *)

Class == p_args.cls
OutVals(out) == [k \in 1..Len(out) |-> out[k].val]

\* C8: a processor called twice in a row on the same chunk objects returns
\* equal lists, whatever the processor and its configuration.
C8_SecondCallReturnsTheSame ==
    (p_calls = 2 /\ ~p_raised) => OutVals(p_out) = OutVals(p_first)

\* C9: AddHeadings leaves every chunk of its input as it was before the call.
C9_AddHeadingsKeepsItsInput ==
    (Class = "AddHeadings" /\ p_calls >= 1) => objs = p_before

FilterOnly ==
    {"ChunkTypeFilter", "RemoveShortTableCells", "RemoveChunksUnderLength",
     "RemoveRepeatedAdjacentChunks", "RemoveMisclassifiedPageNumbers"}

\* C10: the list a filter-only processor returns is a subsequence of its
\* input: every returned chunk is one of the input objects, with the fields
\* it had before the call, and the returned chunks are in input order.
C10_FiltersReturnSubsequence ==
    (Class \in FilterOnly /\ p_calls >= 1) =>
        /\ ~p_raised
        /\ objs = p_before
        /\ \A k \in 1..Len(p_out) :
              /\ p_out[k].ref \in 1..Len(p_before)
              /\ p_out[k].val = p_before[p_out[k].ref]
        /\ \A j, k \in 1..Len(p_out) : j < k => p_out[j].ref < p_out[k].ref

C10_Witness ==
    /\ Class = "RemoveMisclassifiedPageNumbers"
    /\ p_calls = 1
    /\ Len(p_before) = 3
    /\ Len(p_out) = 2
    /\ p_out[1].ref = 1
    /\ p_out[2].ref = 3
    /\ p_out[1].val.chunk_type = PAGE_HEADER
    /\ p_before[2].chunk_type = PAGE_HEADER

IsCombinable(self, type) ==
    \E k \in 1..Len(self.chunk_types_to_combine) : self.chunk_types_to_combine[k] = type

\* the last position of the maximal run of chunks of one type that starts at i
RunEnd(heap, i) ==
    CHOOSE j \in i..Len(heap) :
        /\ \A m \in i..j : heap[m].chunk_type = heap[i].chunk_type
        /\ (j < Len(heap) => heap[j + 1].chunk_type # heap[i].chunk_type)

RECURSIVE CombinedRuns(_, _, _)
\* what C18 states of the output for the chunks from position i on: one
\* element per chunk of a non-combinable type and per maximal run of a
\* combinable type
CombinedRuns(self, heap, i) ==
    IF i > Len(heap) THEN <<>>
    ELSE IF ~IsCombinable(self, heap[i].chunk_type)
    THEN <<[first |-> i, last |-> i, run |-> FALSE,
            text |-> heap[i].text, chunk_type |-> heap[i].chunk_type]>>
         \o CombinedRuns(self, heap, i + 1)
    ELSE LET j == RunEnd(heap, i) IN
         <<[first |-> i, last |-> j, run |-> TRUE,
            text |-> str_join(self.text_separator,
                              [k \in 1..(j - i + 1) |-> heap[i + k - 1].text]),
            chunk_type |-> IF self.merge_into_chunk_type # None
                           THEN Get(self.merge_into_chunk_type)
                           ELSE heap[i].chunk_type]>>
         \o CombinedRuns(self, heap, j + 1)

\* C18: a returning call of CombineSuccessiveSameTypeChunks gives, in input
\* order, one chunk per maximal run of one combinable type (the texts of the
\* run joined by the separator, retyped to the retype target if there is one,
\* runs of length 1 included) and every chunk of a non-combinable type as it
\* was; without a retype target no two adjacent output chunks have the same
\* combinable type.
C18_RunsAreCombined ==
    (Class = "CombineSuccessiveSameTypeChunks" /\ p_calls >= 1 /\ ~p_raised) =>
        LET self == Get(p_self)
            runs == CombinedRuns(self, p_before, 1)
        IN /\ Len(p_out) = Len(runs)
           /\ \A k \in 1..Len(runs) :
                 /\ p_out[k].val.text = runs[k].text
                 /\ p_out[k].val.chunk_type = runs[k].chunk_type
                 /\ ~runs[k].run =>
                       /\ p_out[k].ref = runs[k].first
                       /\ p_out[k].val = p_before[runs[k].first]
                       /\ objs[runs[k].first] = p_before[runs[k].first]
           /\ self.merge_into_chunk_type = None =>
                 \A k \in 1..(Len(p_out) - 1) :
                     IsCombinable(self, p_out[k].val.chunk_type)
                         => p_out[k].val.chunk_type # p_out[k + 1].val.chunk_type

C18_Witness ==
    /\ Class = "CombineSuccessiveSameTypeChunks"
    /\ p_calls = 1
    /\ ~p_raised
    /\ Get(p_self).merge_into_chunk_type = Some(TITLE)
    /\ Len(p_before) = 3
    /\ Len(p_out) = 2
    /\ p_before[1].chunk_type = TEXT
    /\ p_before[2].chunk_type = LIST
    /\ p_before[3].chunk_type = LIST
    /\ p_out[1].val.chunk_type = TITLE
    /\ p_out[2].val.text = <<"b", "\n", "c">>

\* CombineTextChunksIntoList, last call: the local variables before and after
\* the iteration for the i-th input chunk
ListBefore(i) == CombineTextChunksIntoList_loop(Get(p_self), p_before, i - 1)
ListAfter(i) == CombineTextChunksIntoList_loop(Get(p_self), p_before, i)
ListCalled == Class = "CombineTextChunksIntoList" /\ p_calls >= 1
\* the i-th input chunk is a TEXT chunk with / without a list marker
IsListItem(i) == p_before[i].chunk_type = TEXT /\ HasListItem(p_before[i].text)
IsPlainText(i) == p_before[i].chunk_type = TEXT /\ ~HasListItem(p_before[i].text)
ListText(st) == Deref(Get(st.current_list_chunk), p_before).text
IntroText(st) == Deref(Get(st.potential_list_intro), p_before).text

\* what C15 states, with `sep` between the folded texts
IntroIsFolded(sep) ==
    ListCalled =>
        /\ \A i \in 1..Len(p_before) :
              LET st == ListBefore(i)
                  nx == ListAfter(i)
              IN (st.ok /\ nx.ok /\ IsListItem(i)) =>
                    /\ st.potential_list_intro # None =>
                          /\ nx.current_list_chunk # None
                          /\ Deref(Get(nx.current_list_chunk), p_before).chunk_type = LIST
                          /\ ListText(nx) = IntroText(st) \o sep \o p_before[i].text
                          /\ nx.potential_list_intro = None
                          /\ nx.new_chunks = st.new_chunks
                          /\ ~p_raised =>
                                \A k \in 1..Len(p_out) :
                                    p_out[k].ref # Get(st.potential_list_intro).ref
                    /\ (st.potential_list_intro = None /\ st.current_list_chunk # None) =>
                          /\ Deref(Get(nx.current_list_chunk), p_before).chunk_type = LIST
                          /\ ListText(nx) = ListText(st) \o sep \o p_before[i].text
                          /\ nx.new_chunks = st.new_chunks

\* C15 (as stated): a pending intro and a following TEXT chunk with a list
\* marker become one LIST chunk with text intro, newline, item; further list
\* items extend that chunk after a newline; the intro is not emitted as a
\* chunk of its own.
C15_IntroFoldedWithNewline == IntroIsFolded(<<"\n">>)

\* C15 (amended): the same with the text_separator the processor was
\* constructed with (a newline by default) in place of the newline.
C15_IntroFoldedWithSeparator ==
    ListCalled => IntroIsFolded(Get(p_self).text_separator)

C15_Witness ==
    /\ ListCalled /\ p_calls = 1 /\ ~p_raised
    /\ Get(p_self).text_separator = <<" ">>
    /\ Len(p_before) = 3
    /\ p_before[1].text = <<"I", ":">>
    /\ Len(p_out) = 1
    /\ p_out[1].val.chunk_type = LIST
    /\ p_out[1].val.text = <<"I", ":", " ", "-", "x", " ", "-", "x">>

\* C16: while a list is in progress, a TEXT chunk without list marker is
\* appended to the list chunk after one space exactly when its text starts
\* with a lowercase letter or its stripped text does not end in ".", "!" or
\* "?"; otherwise the list chunk is emitted and after it the chunk itself,
\* as it is.
C16_ContinuationOrEndOfList ==
    ListCalled =>
        \A i \in 1..Len(p_before) :
            LET st == ListBefore(i)
                nx == ListAfter(i)
                text == p_before[i].text
                continues ==
                    \/ text # <<>> /\ text[1] \in {Lowers[k] : k \in 1..Len(Lowers)}
                    \/ ~endswith(str_strip(text), {".", "!", "?"})
            IN (st.ok /\ st.current_list_chunk # None /\ IsPlainText(i)) =>
                  IF continues
                  THEN nx.ok =>
                          /\ ListText(nx) = ListText(st) \o <<" ">> \o text
                          /\ nx.new_chunks = st.new_chunks
                  ELSE /\ nx.ok
                       /\ nx.current_list_chunk = None
                       /\ nx.new_chunks =
                              st.new_chunks \o <<Get(st.current_list_chunk), InputEntry(i)>>
                       /\ ~p_raised =>
                              \E k \in 2..Len(p_out) :
                                  /\ p_out[k].ref = i
                                  /\ p_out[k].val = p_before[i]
                                  /\ p_out[k - 1].val = Get(Get(st.current_list_chunk).val)

C16_Witness ==
    /\ ListCalled /\ p_calls = 1 /\ ~p_raised
    /\ Len(p_before) = 3
    /\ p_before[2].text = <<"M">>
    /\ p_before[3].text = <<"D", "o", "n", "e", ".">>
    /\ Len(p_out) = 2
    /\ p_out[1].val.text = <<"-", "x", " ", "M">>
    /\ p_out[2].ref = 3

\* C17: a chunk that is not TEXT is appended as it is, right after the list
\* in progress and the pending intro (if any), which are emitted as chunks of
\* their own; at the end of the input the list in progress or the pending
\* intro is emitted; the output chunks are in the order of their first
\* contributing input chunks (the least id of a merged chunk, ids being
\* input positions).
C17_FlushBeforeNonText ==
    (ListCalled /\ ~p_raised) =>
        /\ objs = p_before
        /\ \A i \in 1..Len(p_before) :
              LET st == ListBefore(i)
                  nx == ListAfter(i)
              IN p_before[i].chunk_type # TEXT =>
                    /\ nx.new_chunks =
                          st.new_chunks \o st.current_list_chunk
                              \o st.potential_list_intro \o <<InputEntry(i)>>
                    /\ nx.current_list_chunk = None
                    /\ nx.potential_list_intro = None
                    /\ \E k \in 1..Len(p_out) :
                          p_out[k].ref = i /\ p_out[k].val = p_before[i]
        /\ LET end == ListAfter(Len(p_before)) IN
           OutVals(p_out) =
               [k \in 1..Len(end.new_chunks) |-> Deref(end.new_chunks[k], p_before)]
               \o [k \in 1..Len(end.current_list_chunk) |->
                      Deref(end.current_list_chunk[k], p_before)]
               \o [k \in 1..Len(end.potential_list_intro) |->
                      Deref(end.potential_list_intro[k], p_before)]
        /\ \A j, k \in 1..Len(p_out) : j < k => p_out[j].val.id < p_out[k].val.id

C17_Witness ==
    /\ ListCalled /\ p_calls = 1 /\ ~p_raised
    /\ Len(p_before) = 3
    /\ p_before[1].text = <<"-", "x">>
    /\ p_before[2].chunk_type = TABLE
    /\ p_before[3].text = <<"I", ":">>
    /\ Len(p_out) = 3
    /\ p_out[1].val.chunk_type = LIST
    /\ p_out[2].ref = 2
    /\ p_out[3].ref = 3

HeadingTypes == {TITLE, TITLE_LOWER_CASE}
SubheadingTypes == {SECTION_HEADING, PAGE_HEADER}

\* Optional: the last position before i whose chunk has one of the types
NearestBefore(heap, i, types) ==
    LET S == {j \in 1..(i - 1) : heap[j].chunk_type \in types} IN
    IF S = {} THEN None ELSE Some(CHOOSE j \in S : \A m \in S : m <= j)

\* the heading C19 states for the chunk at position i
StatedHeading(heap, i) ==
    LET h == NearestBefore(heap, i, HeadingTypes)
        s == NearestBefore(heap, i, SubheadingTypes)
    IN IF heap[i].chunk_type \in HeadingTypes THEN None
       ELSE IF heap[i].chunk_type \in SubheadingTypes THEN h
       ELSE IF s # None /\ (h = None \/ Get(h) < Get(s)) THEN s
       ELSE h

\* C19: AddHeadings returns the chunks in input order; a heading-type chunk
\* has no heading, a subheading-type chunk has the nearest preceding
\* heading-type chunk (or none), any other chunk has the nearest preceding
\* subheading-type chunk if it comes after the nearest preceding heading-type
\* chunk, else that heading-type chunk, else none.
C19_HeadingsAssigned ==
    (Class = "AddHeadings" /\ p_calls >= 1) =>
        /\ ~p_raised
        /\ Len(p_out) = Len(p_before)
        /\ \A k \in 1..Len(p_out) :
              /\ p_out[k].ref = k
              /\ p_out[k].val.heading = StatedHeading(p_before, k)

\* the same for inputs whose heading-type chunks have no heading
C19_HeadingsAssignedToFreshTitles ==
    (\A i \in 1..Len(p_before) :
        p_before[i].chunk_type \in HeadingTypes => p_before[i].heading = None)
    => C19_HeadingsAssigned

\* C20: when AddHeadings is applied to chunks whose heading is unset, then
\* from every output chunk at most 2 heading references lead to a chunk
\* whose heading is unset, and no chunk is met twice on the way.
C20_HeadingDepthBound ==
    (/\ Class = "AddHeadings" /\ p_calls >= 1
     /\ \A i \in 1..Len(p_before) : p_before[i].heading = None) =>
        \A k \in 1..Len(p_out) :
            LET h1 == p_out[k].val.heading IN
            \/ h1 = None
            \/ /\ Get(h1) # p_out[k].ref
               /\ LET h2 == objs[Get(h1)].heading IN
                  \/ h2 = None
                  \/ /\ Get(h2) \notin {Get(h1), p_out[k].ref}
                     /\ objs[Get(h2)].heading = None

C20_Witness ==
    /\ Class = "AddHeadings"
    /\ p_calls = 1
    /\ \A i \in 1..Len(p_before) : p_before[i].heading = None
    /\ Len(p_out) = 4
    /\ p_out[4].val.heading = Some(3)
    /\ objs[3].heading = Some(2)
    /\ objs[2].heading = None
    /\ objs[1].chunk_type = TITLE

-----------------------------------------------------------------------------
(* SplitTextIntoSentences, checked under Spec *)

\* SplitTextIntoSentences, last call: the local variables before the
\* iteration for the i-th input chunk
SplitBefore(i) == SplitTextIntoSentences_loop(Get(p_self).splitter, p_before, i - 1)
SplitCalled == Class = "SplitTextIntoSentences" /\ p_calls >= 1
IsIgnored(i) ==
    \E k \in 1..Len(p_args.chunk_types_to_ignore) :
        p_args.chunk_types_to_ignore[k] = p_before[i].chunk_type
\* a sentence is carried when the i-th input chunk arrives
IsCarried(i) == SplitBefore(i).incomplete_chunk # None
Carried(i) == Get(SplitBefore(i).incomplete_chunk)

\* C11: an ignored-type chunk that arrives while an incomplete sentence is
\* carried comes, in the output, after the chunk that takes up the carried
\* text: between the chunks already emitted when it arrived and its own place
\* there is a new TEXT chunk made from the carried chunk (a completed sentence
\* or the flushed incomplete chunk; it has the carried chunk's id, the least
\* id of the chunks merged into it).
C11_IgnoredAfterCarriedText ==
    (SplitCalled /\ ~p_raised) =>
        \A i \in 1..Len(p_before) :
            (IsIgnored(i) /\ IsCarried(i)) =>
                \A k \in 1..Len(p_out) :
                    p_out[k].ref = i =>
                        \E j \in (Len(SplitBefore(i).new_chunks) + 1)..(k - 1) :
                            /\ p_out[j].ref = 0
                            /\ p_out[j].val.chunk_type = TEXT
                            /\ p_out[j].val.id = Carried(i).id

\* C12: the non-TEXT chunks of the input (ignored types and other types
\* alike) are in the output in the order they have in the input.
C12_NonTextOrderPreserved ==
    (SplitCalled /\ ~p_raised) =>
        \A j, k \in 1..Len(p_out) :
            (/\ j < k
             /\ p_out[j].val.chunk_type # TEXT
             /\ p_out[k].val.chunk_type # TEXT)
                => p_out[j].ref < p_out[k].ref

RECURSIVE Words(_, _)
\* a text up to white space: its words (the maximal runs of characters that
\* are no white space), in order; `word` is the run read so far
Words(t, word) ==
    IF t = <<>> THEN (IF word = <<>> THEN <<>> ELSE <<word>>)
    ELSE IF Head(t) \in Whitespace
    THEN (IF word = <<>> THEN <<>> ELSE <<word>>) \o Words(Tail(t), <<>>)
    ELSE Words(Tail(t), Append(word, Head(t)))

TextsJoined(chunks) ==
    str_join(<<" ">>, [k \in 1..Len(chunks) |-> chunks[k].text])

\* C13: for an input of TEXT chunks only, the texts of the output chunks
\* joined with one space are, up to white space, the texts of the input
\* chunks joined with one space.
C13_SplitCoversTheText ==
    (/\ SplitCalled /\ ~p_raised
     /\ \A i \in 1..Len(p_before) : p_before[i].chunk_type = TEXT)
        => Words(TextsJoined(OutVals(p_out)), <<>>) = Words(TextsJoined(p_before), <<>>)

\* one Optional list followed by another
Followed(a, b) == IF a = None \/ b = None THEN None ELSE Some(Get(a) \o Get(b))

\* the chunks made from the working chunk in an iteration that took the
\* locals from st to nx: the complete sentences appended to new_chunks and
\* the new remainder
ProducedAt(st, nx) ==
    {Get(nx.new_chunks[k].val) :
        k \in {n \in (Len(st.new_chunks) + 1)..Len(nx.new_chunks) :
                  nx.new_chunks[n].ref = 0}}
    \cup {nx.incomplete_chunk[k] : k \in 1..Len(nx.incomplete_chunk)}

\* what C14 states; `stripped` says whether the working text is the joined
\* text stripped of the white space around it or the joined text as it is
WorkingChunkIsMerged(stripped) ==
    (SplitCalled /\ ~p_raised) =>
        \A i \in 1..Len(p_before) :
            LET st == SplitBefore(i)
                nx == SplitTextIntoSentences_step(Get(p_self).splitter, p_before, i, st)
                chunk == p_before[i]
                carried == Get(st.incomplete_chunk)
                joined == carried.text \o <<" ">> \o chunk.text
                produced == ProducedAt(st, nx)
            IN (chunk.chunk_type = TEXT /\ ~IsIgnored(i)) =>
                  /\ st.incomplete_chunk # None =>
                        /\ nx.text = Some(IF stripped THEN str_strip(joined) ELSE joined)
                        /\ \A c \in produced :
                              /\ c.bounding_boxes =
                                     Followed(carried.bounding_boxes, chunk.bounding_boxes)
                              /\ c.pages = Followed(carried.pages, chunk.pages)
                  /\ st.incomplete_chunk = None =>
                        /\ nx.text = Some(chunk.text)
                        /\ \A c \in produced :
                              /\ c.bounding_boxes = chunk.bounding_boxes
                              /\ c.pages = chunk.pages
                  \* what the iteration appended is returned, in its place
                  /\ \A k \in 1..Len(nx.new_chunks) :
                        /\ k <= Len(p_out)
                        /\ p_out[k].ref = nx.new_chunks[k].ref
                        /\ p_out[k].val = Deref(nx.new_chunks[k], p_before)

\* C14: when a TEXT chunk arrives while an incomplete sentence is carried the
\* working text is the carried text, one space, the new text, and every chunk
\* made from it (each complete sentence, the new remainder) has the carried
\* chunk's bounding_boxes and pages followed by the new chunk's; with nothing
\* carried the sentences have the chunk's own bounding_boxes and pages.
C14_WorkingTextIsJoined == WorkingChunkIsMerged(FALSE)

\* C14 as the code has it: the working text is the carried text, one space,
\* the new text, stripped of leading and trailing white space; the
\* bounding_boxes and pages are as stated.
C14_WorkingTextIsJoinedAndStripped == WorkingChunkIsMerged(TRUE)

\* 'k' with a box on page 1 is carried when 'l. m' with a box on page 2
\* arrives: the sentence 'k l.' and the remainder 'm' have both boxes and pages
C14_Witness ==
    /\ SplitCalled /\ p_calls = 1 /\ ~p_raised
    /\ Len(p_before) = 2
    /\ IsCarried(2)
    /\ p_before[1].bounding_boxes = Some(<<BoxA>>)
    /\ p_before[2].bounding_boxes = Some(<<BoxB>>)
    /\ Len(p_out) = 2
    /\ p_out[1].val.text = <<"k", " ", "l", ".">>
    /\ p_out[1].val.bounding_boxes = Some(<<BoxA, BoxB>>)
    /\ p_out[1].val.pages = Some(<<1, 2>>)
    /\ p_out[2].val.text = <<"m">>
    /\ p_out[2].val.bounding_boxes = Some(<<BoxA, BoxB>>)
    /\ p_out[2].val.pages = Some(<<1, 2>>)

-----------------------------------------------------------------------------
(* The filters and the regex processors, checked under Spec *)

\* the i-th input chunk of the last call is in the returned list
IsKept(i) == \E k \in 1..Len(p_out) : p_out[k].ref = i

RepeatedCalled == Class = "RemoveRepeatedAdjacentChunks" /\ p_calls >= 1
IsTracked(i) ==
    \E k \in 1..Len(p_args.chunk_types) : p_args.chunk_types[k] = p_before[i].chunk_type
\* the text as it is compared: lowered when ignore_case is set
ComparedText(i) ==
    IF p_args.ignore_case THEN [k \in 1..Len(p_before[i].text) |->
                                   lower_char(p_before[i].text[k])]
    ELSE p_before[i].text
\* the kept chunks of the type of the i-th chunk that come before it
KeptOfTypeBefore(i) ==
    {j \in 1..(i - 1) : p_before[j].chunk_type = p_before[i].chunk_type /\ IsKept(j)}

\* C21: a chunk of a tracked type is dropped exactly when an earlier chunk of
\* its type exists and the most recently kept chunk of its type has the same
\* text (lowered when ignore_case is set), whatever lies in between; chunks of
\* other types are always kept.
C21_TrackedPerType ==
    RepeatedCalled =>
        \A i \in 1..Len(p_before) :
            IF IsTracked(i)
            THEN ~IsKept(i) <=>
                    /\ \E j \in 1..(i - 1) : p_before[j].chunk_type = p_before[i].chunk_type
                    /\ KeptOfTypeBefore(i) # {}
                    /\ LET last == CHOOSE j \in KeptOfTypeBefore(i) :
                                       \A m \in KeptOfTypeBefore(i) : m <= j
                       IN ComparedText(last) = ComparedText(i)
            ELSE IsKept(i)

\* TITLE 'Ab', a chunk of another type, TITLE 'ab': with ignore_case the
\* second title is dropped across the chunk in between
C21_Witness ==
    /\ RepeatedCalled /\ p_calls = 1
    /\ p_args.ignore_case
    /\ Len(p_before) = 3
    /\ p_before[1].chunk_type = TITLE /\ p_before[1].text = <<"A", "b">>
    /\ p_before[2].chunk_type # TITLE
    /\ p_before[3].chunk_type = TITLE /\ p_before[3].text = <<"a", "b">>
    /\ Len(p_out) = 2
    /\ p_out[1].ref = 1
    /\ p_out[2].ref = 2

\* C22: RemoveRepeatedAdjacentChunks applied to the list it returned returns
\* that list unchanged.
C22_RepeatedIdempotent ==
    RepeatedCalled =>
        LET again == RemoveRepeatedAdjacentChunks_call(Get(p_self), OutVals(p_out)) IN
        /\ again.ok
        /\ again.objs = OutVals(p_out)
        /\ again.out = [k \in 1..Len(p_out) |-> InputEntry(k)]

\* three equal titles in a row: one is returned, and returned again
C22_Witness ==
    /\ RepeatedCalled /\ p_calls = 1
    /\ Len(p_before) = 3
    /\ \A i \in 1..3 : p_before[i].chunk_type = TITLE /\ p_before[i].text = <<"a", "b">>
    /\ Len(p_out) = 1
    /\ RemoveRepeatedAdjacentChunks_call(Get(p_self), OutVals(p_out)).out = <<InputEntry(1)>>

RECURSIVE TrailingDigits(_)
\* the number of digits a text ends with
TrailingDigits(t) ==
    IF t # <<>> /\ t[Len(t)] \in Digits
    THEN 1 + TrailingDigits(SubSeq(t, 1, Len(t) - 1)) ELSE 0

\* a text is fully numeric: an optional sign, then digits, commas and white
\* space, then an optional decimal point, then one digit or more
IsFullyNumeric(t) ==
    LET d == TrailingDigits(t)
        body == SubSeq(t, 1, Len(t) - d)
        unpointed == IF body # <<>> /\ body[Len(body)] = "."
                     THEN SubSeq(body, 1, Len(body) - 1) ELSE body
        unsigned == IF unpointed # <<>> /\ unpointed[1] \in {"+", "-"}
                    THEN Tail(unpointed) ELSE unpointed
    IN /\ d >= 1
       /\ \A k \in 1..Len(unsigned) : unsigned[k] \in Digits \cup {","} \cup Whitespace

\* C23: RemoveShortTableCells drops a chunk exactly when it is a TABLE_CELL
\* and its text is shorter than min_chars or (remove_all_numeric being set)
\* its stripped text is fully numeric; chunks of other types are kept, and so
\* is a TABLE_CELL of exactly min_chars characters that is not numeric.
C23_ShortOrNumericCellsDropped ==
    (Class = "RemoveShortTableCells" /\ p_calls >= 1) =>
        \A i \in 1..Len(p_before) :
            ~IsKept(i) <=>
                /\ p_before[i].chunk_type = TABLE_CELL
                /\ \/ Len(p_before[i].text) < p_args.min_chars
                   \/ /\ p_args.remove_all_numeric
                      /\ IsFullyNumeric(str_strip(p_before[i].text))

\* min_chars = 5: the cell 'short' is kept, the cell '123.45' is dropped as
\* numeric, the TEXT chunk '123.45' is kept
C23_Witness ==
    /\ Class = "RemoveShortTableCells" /\ p_calls = 1
    /\ p_args.min_chars = 5 /\ p_args.remove_all_numeric
    /\ Len(p_before) = 3
    /\ p_before[1].chunk_type = TABLE_CELL
    /\ p_before[1].text = <<"s", "h", "o", "r", "t">>
    /\ p_before[2].chunk_type = TABLE_CELL
    /\ p_before[2].text = <<"1", "2", "3", ".", "4", "5">>
    /\ p_before[3].chunk_type = TEXT
    /\ p_before[3].text = <<"1", "2", "3", ".", "4", "5">>
    /\ Len(p_out) = 2
    /\ p_out[1].ref = 1
    /\ p_out[2].ref = 3

RegexCalled == Class \in RegexClasses /\ p_calls >= 1
\* the i-th input chunk is of a type the regex processor handles
IsProcessed(i) ==
    LET chunk_types == Get(p_self).chunk_types IN
    chunk_types = None
        \/ \E k \in 1..Len(Get(chunk_types)) : Get(chunk_types)[k] = p_before[i].chunk_type
\* the stripped text of the i-th input chunk matches the pattern in its
\* entirety
StrippedTextMatches(i) ==
    re_match_whole(Get(p_self).pattern, str_strip(p_before[i].text), Get(p_self).ignore_case)
\* the places of the returned list that hold the i-th input chunk or a chunk
\* made from it (a copy keeps the id)
ReturnedFor(i) == {k \in 1..Len(p_out) : p_out[k].val.id = p_before[i].id}

\* C24: a chunk of a processed type whose stripped text matches the pattern
\* in its entirety is dropped, with skip_partial_replacements set or not; so
\* RemoveMisclassifiedPageNumbers removes a PAGE_HEADER whose text is a bare
\* page number surrounded by spaces.
C24_WholeMatchOfStrippedTextDropped ==
    RegexCalled =>
        \A i \in 1..Len(p_before) :
            (IsProcessed(i) /\ StrippedTextMatches(i)) => ReturnedFor(i) = {}

\* the text of a chunk with every match of the pattern replaced by
\* replace_with, stripped
EveryMatchReplaced(i) ==
    str_strip(re_sub(Get(p_self).pattern, Get(p_self).replace_with, p_before[i].text,
                     0, Get(p_self).ignore_case))

\* C25: with skip_partial_replacements false, a processed chunk that is no
\* whole-text match is replaced by a chunk with the text in which every match
\* of the pattern is replaced by replace_with, stripped, and is dropped
\* exactly when that text is empty; no returned processed chunk has an empty
\* text.  (For RemoveFalseCheckboxes: a chunk of ':selected:' / ':unselected:'
\* tokens and white space only is dropped, other chunks lose every token.)
C25_EveryMatchReplaced ==
    (RegexCalled /\ ~Get(p_self).skip_partial_replacements) =>
        \A i \in 1..Len(p_before) :
            (IsProcessed(i) /\ ~StrippedTextMatches(i)) =>
                IF EveryMatchReplaced(i) = <<>> THEN ReturnedFor(i) = {}
                ELSE \E k \in 1..Len(p_out) :
                        /\ ReturnedFor(i) = {k}
                        /\ p_out[k].val =
                               [p_before[i] EXCEPT !.text = EveryMatchReplaced(i)]

\* C25 for the processors without ignore_case (RemoveFalseCheckboxes among
\* them)
C25_EveryMatchReplacedCaseSensitive ==
    (RegexCalled /\ ~Get(p_self).ignore_case) => C25_EveryMatchReplaced

\* C34: with ignore_case true and skip_partial_replacements false, a
\* processed chunk that the whole-text test (case-insensitive) does not drop
\* gets the text in which every case-insensitive match of the pattern,
\* however many there are, is replaced by replace_with, stripped; it is
\* dropped when that text is empty.
C34_SubstitutionIgnoresCase ==
    (RegexCalled /\ Get(p_self).ignore_case /\ ~Get(p_self).skip_partial_replacements) =>
        \A i \in 1..Len(p_before) :
            (/\ IsProcessed(i)
             /\ ~re_match_whole(Get(p_self).pattern, p_before[i].text, TRUE)) =>
                LET expected ==
                        str_strip(re_sub(Get(p_self).pattern, Get(p_self).replace_with,
                                         p_before[i].text, 0, TRUE))
                IN \A k \in 1..Len(p_out) :
                       p_out[k].val.id = p_before[i].id =>
                           /\ expected # <<>>
                           /\ p_out[k].val.text = expected

\* the text is an optional 'page', white space, digits (letters of any case)
IsBarePageNumber(t) ==
    LET d == TrailingDigits(t)
        body == SubSeq(t, 1, Len(t) - d)
        paged == Len(body) >= 4
                    /\ [k \in 1..4 |-> lower_char(body[k])] = <<"p", "a", "g", "e">>
        rest == IF paged THEN SubSeq(body, 5, Len(body)) ELSE body
    IN /\ d >= 1
       /\ \A k \in 1..Len(rest) : rest[k] \in Whitespace

C26_UnpaddedPageNumbersRemoved ==
    (Class = "RemoveMisclassifiedPageNumbers" /\ p_calls >= 1) =>
        /\ objs = p_before
        /\ \A k \in 1..Len(p_out) :
              /\ p_out[k].ref \in 1..Len(p_before)
              /\ p_out[k].val = p_before[p_out[k].ref]
        /\ \A i \in 1..Len(p_before) :
              IF p_before[i].chunk_type \in {PAGE_HEADER, PAGE_FOOTER}
              THEN /\ IsBarePageNumber(p_before[i].text) => ~IsKept(i)
                   /\ ~IsBarePageNumber(str_strip(p_before[i].text)) => IsKept(i)
              ELSE IsKept(i)

\* C27: ChunkTypeFilter(types_to_remove) with a string that is no known chunk
\* type in the list does not fail: the processor exists, its types_to_remove
\* are the known types of the list, in their order, and a call drops exactly
\* the chunks of these types.
C27_UnknownTypesFilteredOut ==
    (Class = "ChunkTypeFilter" /\ p_pc # "new") =>
        LET known == SelectSeq(p_args.types_to_remove, LAMBDA t : t \in BlockType) IN
        /\ p_pc = "ready"
        /\ p_self # None
        /\ Get(p_self).types_to_remove = known
        /\ p_calls >= 1 =>
              /\ ~p_raised
              /\ \A i \in 1..Len(p_before) :
                    ~IsKept(i) <=>
                        \E k \in 1..Len(known) : known[k] = p_before[i].chunk_type

\* C27 for lists of known types only
C27_KnownTypesFiltered ==
    (Class = "ChunkTypeFilter"
        /\ \A k \in 1..Len(p_args.types_to_remove) : p_args.types_to_remove[k] \in BlockType)
        => C27_UnknownTypesFilteredOut

-----------------------------------------------------------------------------
(* The splitter router and the library-backed strategy, checked under Spec *)

KnownSplitterTypes == { <<"p", "y", "s", "b", "d">>, <<"b", "a", "s", "i", "c">> }

\* the splitter the lower-cased name selects, with the configured ignore set
SelectedSplitter ==
    IF str_lower(p_args.splitter_type) = <<"p", "y", "s", "b", "d">>
    THEN [cls |-> "SplitTextIntoSentencesPysbd",
          chunk_types_to_ignore |-> p_args.chunk_types_to_ignore,
          segmenter |-> p_args.segmenter]
    ELSE [cls |-> "SplitTextIntoSentencesBasic",
          chunk_types_to_ignore |-> p_args.chunk_types_to_ignore]

\* C32: constructing SplitTextIntoSentences with a strategy name that is,
\* lower-cased, neither 'pysbd' nor 'basic' raises and yields no processor
\* (nothing can be called); with a known name the processor holds the
\* selected strategy with the configured ignore set, and a call returns
\* what that strategy returns on the same chunks.
C32_UnknownStrategyRejected ==
    (Class = "SplitTextIntoSentences" /\ p_pc # "new") =>
        IF str_lower(p_args.splitter_type) \notin KnownSplitterTypes
        THEN /\ p_pc = "init_raised"
             /\ p_self = None
             /\ p_calls = 0
             /\ p_out = <<>>
        ELSE /\ p_pc = "ready"
             /\ Get(p_self).splitter = SelectedSplitter
             /\ p_calls >= 1 =>
                   LET r == SplitTextIntoSentencesBasic_call(SelectedSplitter, p_before) IN
                   /\ p_raised = ~r.ok
                   /\ OutVals(p_out) = [k \in 1..Len(r.out) |-> Deref(r.out[k], r.objs)]

\* the construction with the name 'nltk' has raised
C32_Witness ==
    /\ Class = "SplitTextIntoSentences"
    /\ p_args.splitter_type = <<"n", "l", "t", "k">>
    /\ p_pc = "init_raised"
    /\ Len(objs) = 2

\* a segment the library-backed strategy accepts as a complete sentence
IsCompleteSegment(segment_str) ==
    /\ segment_str # <<>>
    /\ segment_str[Len(segment_str)] \in SentenceEnd
    /\ \A k \in 1..Len(common_abbreviations) :
          ~endswith_text(segment_str, common_abbreviations[k])

\* C35: in the library-backed strategy the sentences emitted from a working
\* text are the detector's segments up to the first rejected one (one without
\* terminal punctuation or ending in a listed abbreviation): no segment after
\* a rejected segment is emitted as a sentence from this chunk.
C35_AcceptedSegmentsFormPrefix ==
    (SplitCalled /\ ~p_raised
        /\ Get(p_self).splitter.cls = "SplitTextIntoSentencesPysbd") =>
        \A i \in 1..Len(p_before) :
            (p_before[i].chunk_type = TEXT /\ ~IsIgnored(i)) =>
                LET st == SplitBefore(i)
                    nx == SplitTextIntoSentences_step(Get(p_self).splitter, p_before, i, st)
                    segments == segment(Get(p_self).splitter.segmenter,
                                        replace_newlines(Get(nx.text)))
                    strs == [k \in 1..Len(segments) |-> str_strip(segments[k])]
                    rejected == {k \in 1..Len(strs) : ~IsCompleteSegment(strs[k])}
                    n == IF rejected = {} THEN Len(strs) ELSE Min(rejected) - 1
                    added == SubSeq(nx.new_chunks, Len(st.new_chunks) + 1, Len(nx.new_chunks))
                    sentences == SelectSeq(added, LAMBDA e : e.ref = 0)
                IN [k \in 1..Len(sentences) |-> Get(sentences[k].val).text]
                       = SubSeq(strs, 1, n)

-----------------------------------------------------------------------------
(* The combiners and the splitter as a whole, checked under Spec *)

\* C36: CombineSuccessiveSameTypeChunks with a retype target leaves its
\* input as it was: after a call, returned or raised, every chunk object of
\* the input list has the chunk_type it had when the call started (the chunks
\* of runs of length 1 included).
C36_RetypeKeepsInputTypes ==
    (/\ Class = "CombineSuccessiveSameTypeChunks"
     /\ p_calls >= 1
     /\ Get(p_self).merge_into_chunk_type # None) =>
        /\ Len(objs) = Len(p_before)
        /\ \A i \in 1..Len(objs) : objs[i].chunk_type = p_before[i].chunk_type

\* the state of the machine of CombineTextChunksIntoList the locals st are in
IsIdle(st) ==
    /\ st.current_list_chunk = None
    /\ st.potential_list_intro = None
    /\ ~st.potential_list_continuation
IsCollectingList(st) ==
    /\ st.current_list_chunk # None
    /\ st.potential_list_intro = None
    /\ st.potential_list_continuation
IsPendingIntro(st) ==
    /\ st.current_list_chunk = None
    /\ st.potential_list_intro # None
    /\ ~st.potential_list_continuation

\* C37: before the loop of CombineTextChunksIntoList and after each of its
\* iterations the locals are in one of the states idle, collecting_list,
\* pending_intro: a list chunk in progress and a pending intro are never both
\* set, the continuation flag is set exactly when a list chunk is in
\* progress, and a chunk becomes the pending intro only when no list was in
\* progress as it arrived.
C37_ListMachineStates ==
    ListCalled =>
        /\ IsIdle(ListBefore(1))
        /\ \A i \in 1..Len(p_before) :
              LET st == ListBefore(i)
                  nx == CombineTextChunksIntoList_step(Get(p_self), p_before, i, st)
              IN st.ok =>
                  /\ nx.ok => (IsIdle(nx) \/ IsCollectingList(nx) \/ IsPendingIntro(nx))
                  /\ ~(nx.current_list_chunk # None /\ nx.potential_list_intro # None)
                  /\ nx.potential_list_continuation <=> nx.current_list_chunk # None
                  /\ nx.potential_list_intro = Some(InputEntry(i)) =>
                        st.current_list_chunk = None

\* 'I:', '-x', 'Done.': pending_intro, then collecting_list, then idle
C37_Witness ==
    /\ ListCalled /\ ~p_raised
    /\ Len(p_before) = 3
    /\ IsPendingIntro(ListAfter(1))
    /\ IsCollectingList(ListAfter(2))
    /\ IsIdle(ListAfter(3))
    /\ Len(p_out) = 2

RECURSIVE TextsCovered(_, _, _, _, _)
\* the texts of the chunks ins[i..] are found, in order and each at a place of
\* its own, in the texts of the chunks outs[k..], the search in outs[k]
\* starting after its first pos characters
TextsCovered(ins, outs, i, k, pos) ==
    IF i > Len(ins) THEN TRUE
    ELSE IF k > Len(outs) THEN FALSE
    ELSE LET at == str_find(slice_from(outs[k].text, pos), ins[i].text) IN
         IF at >= 0
         THEN TextsCovered(ins, outs, i + 1, k, pos + at + Len(ins[i].text))
         ELSE TextsCovered(ins, outs, i, k + 1, 0)

\* C38: CombineTextChunksIntoList loses no content: when it returns, the
\* texts of the input chunks are contained in the texts of the output chunks,
\* in input order and each at a place of its own (so two consecutive TEXT
\* chunks that end in ':' are both in the output).
C38_ListCombinerKeepsEveryText ==
    (ListCalled /\ ~p_raised) => TextsCovered(p_before, OutVals(p_out), 1, 1, 0)

\* the i-th input chunk is a TEXT chunk without list marker that ends in ':'
IsIntro(i) == IsPlainText(i) /\ endswith(str_strip(p_before[i].text), {":"})

\* the loss of C38 is that of a pending intro replaced by the next one: no
\* text is lost when no pending intro is followed by a chunk ending in ':'
C38_KeptUnlessIntroFollowsIntro ==
    (/\ ListCalled /\ ~p_raised
     /\ \A i \in 1..(Len(p_before) - 1) :
           ~(IsPendingIntro(ListAfter(i)) /\ IsIntro(i + 1))) =>
        TextsCovered(p_before, OutVals(p_out), 1, 1, 0)

\* the places of the returned list that hold the i-th input object
PlacesOf(i) == {k \in 1..Len(p_out) : p_out[k].ref = i}

\* C39: when SplitTextIntoSentences returns, every non-TEXT input chunk is in
\* the returned list exactly once, as the same unchanged object; the ignored
\* chunks are in the order they had in the input; and nothing is left in the
\* locals: the list ends with the sentence still carried after the loop, as a
\* chunk of its own, and then the ignored chunks still buffered.
C39_NothingLeftBehind ==
    (SplitCalled /\ ~p_raised) =>
        LET st == SplitBefore(Len(p_before) + 1)
            n == Len(st.new_chunks)
            c == Len(st.incomplete_chunk)
        IN /\ \A i \in 1..Len(p_before) :
                 p_before[i].chunk_type # TEXT =>
                     /\ Cardinality(PlacesOf(i)) = 1
                     /\ \A k \in PlacesOf(i) : p_out[k].val = p_before[i]
                     /\ objs[i] = p_before[i]
           /\ \A i, j \in 1..Len(p_before) :
                 (i < j /\ IsIgnored(i) /\ IsIgnored(j)) =>
                     \A k \in PlacesOf(i) : \A l \in PlacesOf(j) : k < l
           /\ Len(p_out) = n + c + Len(st.skipped_chunk_buffer)
           /\ st.incomplete_chunk # None =>
                 /\ p_out[n + 1].ref = 0
                 /\ p_out[n + 1].val = Get(st.incomplete_chunk)
           /\ \A k \in 1..Len(st.skipped_chunk_buffer) :
                 p_out[n + c + k].ref = st.skipped_chunk_buffer[k].ref

\* 'a' and then a page footer: after the loop 'a' is carried and the footer
\* buffered; the call returns a chunk 'a' and then the footer
C39_Witness ==
    /\ SplitCalled /\ ~p_raised /\ p_calls = 1
    /\ Len(p_before) = 2
    /\ p_before[1].chunk_type = TEXT
    /\ IsIgnored(2)
    /\ SplitBefore(3).incomplete_chunk # None
    /\ Len(SplitBefore(3).skipped_chunk_buffer) = 1
    /\ Len(p_out) = 2
    /\ p_out[1].val.text = p_before[1].text
    /\ p_out[2].ref = 2

\* the ids of the chunks of a list are pairwise distinct
DistinctIds(chunks) ==
    \A i, j \in 1..Len(chunks) : chunks[i].id = chunks[j].id => i = j

\* C40: whatever the processor, when the ids of the input chunks are pairwise
\* distinct so are the ids of the chunks a call returns.
C40_IdsStayUnique ==
    (p_calls >= 1 /\ ~p_raised /\ DistinctIds(p_before)) => DistinctIds(OutVals(p_out))

\* C40 as the code has it: the ids stay pairwise distinct through every
\* processor but SplitTextIntoSentences, whose output chunks have ids of input
\* chunks (each sentence the id of the working chunk it was cut from).
C40_IdsStayUniqueButInSplitter ==
    (p_calls >= 1 /\ ~p_raised /\ DistinctIds(p_before)) =>
        IF Class = "SplitTextIntoSentences"
        THEN \A k \in 1..Len(p_out) :
                 \E i \in 1..Len(p_before) : p_out[k].val.id = p_before[i].id
        ELSE DistinctIds(OutVals(p_out))

\* a table and two TEXT chunks combined into one: ids 0 and 1 are returned
C40_Witness ==
    /\ Class = "CombineSuccessiveSameTypeChunks" /\ p_calls = 1 /\ ~p_raised
    /\ Len(p_before) = 3
    /\ p_before[1].chunk_type = TABLE
    /\ Len(p_out) = 2
    /\ p_out[1].val.id = 0
    /\ p_out[2].ref = 0
    /\ p_out[2].val.id = 1

-----------------------------------------------------------------------------
(* Pipeline (src/src/pipeline.py) *)

\* TextBlock.to_string() of cpr_sdk: the lines of the block, each stripped,
\* joined by a space
to_string(text_block) ==
    str_join(<<" ">>, [k \in 1..Len(text_block.text) |-> str_strip(text_block.text[k])])

\* the keyword arguments parser_output_to_chunks passes to Chunk for the
\* block at position idx (0-based)
parser_output_to_chunks_kwargs(idx, text_block) ==
    [idx |-> idx,
     text |-> to_string(text_block),
     chunk_type |-> text_block.type,
     bounding_boxes |->
         IF text_block.pdf /\ text_block.coords # <<>> THEN Some(<<text_block.coords>>)
         ELSE None,
     pages |-> IF text_block.pdf THEN Some(<<text_block.page_number>>) ELSE None]

\* parser_output_to_chunks: the list comprehension raises when one of the
\* constructions does
parser_output_to_chunks(text_blocks) ==
    IF text_blocks = <<>> THEN Return(<<>>)
    ELSE LET made == [k \in 1..Len(text_blocks) |->
                         NewChunk(parser_output_to_chunks_kwargs(k - 1, text_blocks[k]))]
         IN IF \E k \in 1..Len(made) : ~made[k].ok
            THEN made[CHOOSE k \in 1..Len(made) :
                          ~made[k].ok /\ \A j \in 1..(k - 1) : made[j].ok]
            ELSE Return([k \in 1..Len(made) |-> made[k].val])

\* component(chunks): the __call__ of the component's class
Component_call(self, heap) ==
    CASE self.cls = "ChunkTypeFilter" -> ChunkTypeFilter_call(self, heap)
      [] self.cls = "RemoveShortTableCells" -> RemoveShortTableCells_call(self, heap)
      [] self.cls = "RemoveChunksUnderLength" -> RemoveChunksUnderLength_call(self, heap)
      [] self.cls = "RemoveRepeatedAdjacentChunks" ->
            RemoveRepeatedAdjacentChunks_call(self, heap)
      [] self.cls = "AddHeadings" -> AddHeadings_call(self, heap)
      [] self.cls \in RegexClasses -> RemoveRegexPattern_call(self, heap)
      [] self.cls = "CombineSuccessiveSameTypeChunks" ->
            CombineSuccessiveSameTypeChunks_call(self, heap)
      [] OTHER -> IdentityChunkProcessor_call(self, heap)

get_empty_response_without_matrix(self) == <<<<>>, None>>

\* Pipeline.get_empty_response: a matrix is its shape and its rows
get_empty_response(self) ==
    IF self.encoder = None THEN <<<<>>, None>>
    ELSE <<<<>>, Some([shape |-> <<0, Get(self.encoder).dimension>>, rows |-> <<>>])>>

\* BaseEncoder.encode_batch: one row of the encoder's dimension per text, in
\* the order of the texts
encode_batch(encoder, text_batch, batch_size) ==
    [shape |-> <<Len(text_batch), encoder.dimension>>,
     rows |-> [k \in 1..Len(text_batch) |-> [embedding_of |-> text_batch[k]]]]

MaxBlocks == 2
MaxComponents == 2

\* The text blocks documents are made of: a block of a PDF page and a block
\* of an HTML document.
TextBlocks ==
    { [type |-> TEXT, text |-> <<<<"a", " ">>, <<"b">>>>, pdf |-> TRUE,
       coords |-> BoxA, page_number |-> 0],
      [type |-> TITLE, text |-> <<<<"T">>>>, pdf |-> FALSE,
       coords |-> <<>>, page_number |-> 0] }

PipelineComponents ==
    { Processor_init(args).val :
        args \in { [cls |-> "ChunkTypeFilter", types_to_remove |-> <<PAGE_NUMBER>>],
                   [cls |-> "RemoveChunksUnderLength", min_num_characters |-> 1],
                   [cls |-> "AddHeadings"],
                   [cls |-> "CombineSuccessiveSameTypeChunks",
                    chunk_types_to_combine |-> <<TEXT>>,
                    text_separator |-> <<"\n">>, merge_into_chunk_type |-> None] } }

\* Pipeline(components, encoder), and the arguments of one call
PipelineInit ==
    /\ ChunkOff
    /\ ProcessorOff
    /\ CliOff
    /\ pl_pc = "start"
    /\ \E components \in SeqsUpTo(PipelineComponents, MaxComponents) :
       \E encoder \in {None, Some([dimension |-> 2])} :
           pl_self = [components |-> components, encoder |-> encoder]
    /\ pl_document \in SeqsUpTo(TextBlocks, MaxBlocks)
    /\ pl_batch_size \in {None, Some(8)}
    /\ pl_chunks = <<>>
    /\ pl_i = 0
    /\ pl_log = <<>>
    /\ pl_ret = None

\* the call begins with the conversion, the batch size is not looked at
Pipeline__call__begin_unchecked ==
    /\ pl_pc = "start"
    /\ LET r == parser_output_to_chunks(pl_document) IN
       IF r.ok
       THEN /\ pl_pc' = "components"
            /\ pl_chunks' = r.val
            /\ UNCHANGED pl_ret
       ELSE /\ pl_pc' = "raised"
            /\ pl_ret' = Some(r)
            /\ UNCHANGED pl_chunks
    /\ UNCHANGED <<pl_self, pl_document, pl_batch_size, pl_i, pl_log>>
    /\ UNCHANGED <<chunkVars, procVars, cliVars>>

\* pipeline.py:65-70: the batch size check, then the conversion
Pipeline__call__begin ==
    /\ pl_pc = "start"
    /\ IF pl_self.encoder # None /\ pl_batch_size = None
       THEN /\ pl_pc' = "raised"
            /\ pl_ret' = Some(Raise("ValueError"))
            /\ UNCHANGED pl_chunks
       ELSE LET r == parser_output_to_chunks(pl_document) IN
            IF r.ok
            THEN /\ pl_pc' = "components"
                 /\ pl_chunks' = r.val
                 /\ UNCHANGED pl_ret
            ELSE /\ pl_pc' = "raised"
                 /\ pl_ret' = Some(r)
                 /\ UNCHANGED pl_chunks
    /\ UNCHANGED <<pl_self, pl_document, pl_batch_size, pl_i, pl_log>>
    /\ UNCHANGED <<chunkVars, procVars, cliVars>>

\* pipeline.py:72-73: one iteration of the loop over self.components
Pipeline__call__component ==
    /\ pl_pc = "components"
    /\ pl_i < Len(pl_self.components)
    /\ LET r == Component_call(pl_self.components[pl_i + 1], pl_chunks)
           out == [k \in 1..Len(r.out) |-> Deref(r.out[k], r.objs)]
       IN /\ pl_log' = Append(pl_log, [callee |-> "component", index |-> pl_i + 1,
                                       input |-> pl_chunks, returned |-> r.ok,
                                       output |-> out])
          /\ pl_i' = pl_i + 1
          /\ IF r.ok
             THEN /\ pl_chunks' = out
                  /\ UNCHANGED <<pl_pc, pl_ret>>
             ELSE /\ pl_pc' = "raised"
                  /\ pl_ret' = Some(Raise(r.err))
                  /\ UNCHANGED pl_chunks
    /\ UNCHANGED <<pl_self, pl_document, pl_batch_size>>
    /\ UNCHANGED <<chunkVars, procVars, cliVars>>

\* pipeline.py:75-91: after the loop
Pipeline__call__finish ==
    /\ pl_pc = "components"
    /\ pl_i = Len(pl_self.components)
    /\ pl_pc' = "returned"
    /\ IF pl_chunks = <<>>
       THEN /\ pl_ret' = Some(Return(get_empty_response(pl_self)))
            /\ UNCHANGED pl_log
       ELSE IF pl_self.encoder = None
       THEN /\ pl_ret' = Some(Return(<<pl_chunks, None>>))
            /\ UNCHANGED pl_log
       ELSE LET serialized_text ==
                    [k \in 1..Len(pl_chunks) |->
                        IF pl_chunks[k].serialized_text = None
                              \/ Get(pl_chunks[k].serialized_text) = <<>>
                        THEN <<"N", "O", "N", "E">>
                        ELSE Get(pl_chunks[k].serialized_text)]
            IN /\ pl_log' = Append(pl_log, [callee |-> "encoder",
                                            input |-> serialized_text])
               /\ pl_ret' = Some(Return(<<pl_chunks,
                                Some(encode_batch(Get(pl_self.encoder), serialized_text,
                                                  Get(pl_batch_size)))>>))
    /\ UNCHANGED <<pl_self, pl_document, pl_batch_size, pl_chunks, pl_i>>
    /\ UNCHANGED <<chunkVars, procVars, cliVars>>

PipelineNext ==
    \/ Pipeline__call__begin
    \/ Pipeline__call__component
    \/ Pipeline__call__finish

PipelineSpec == PipelineInit /\ [][PipelineNext]_vars

-----------------------------------------------------------------------------
(* Properties of Pipeline.__call__, checked under PipelineSpec *)

CallEnded == pl_pc \in {"returned", "raised"}
ConfigurationError ==
    pl_pc = "raised" /\ pl_self.encoder # None /\ pl_batch_size = None
ComponentCalls == SelectSeq(pl_log, LAMBDA c : c.callee = "component")

\* C1: a call of the pipeline (one that passes the batch size check) invokes
\* every configured component exactly once, in list order, the first on the
\* chunks converted from the document (one per text block) and each next
\* one on what the one before returned; the encoder is called only after
\* the last component has returned.
C1_ComponentsRunOnceInOrder ==
    (CallEnded /\ ~ConfigurationError
        /\ \A k \in 1..Len(pl_log) :
              pl_log[k].callee = "component" => pl_log[k].returned) =>
        /\ Len(ComponentCalls) = Len(pl_self.components)
        /\ \A k \in 1..Len(ComponentCalls) :
              /\ ComponentCalls[k].index = k
              /\ k = 1 => Len(ComponentCalls[k].input) = Len(pl_document)
              /\ k > 1 => ComponentCalls[k].input = ComponentCalls[k - 1].output
        /\ \A k \in 1..Len(pl_log) :
              pl_log[k].callee = "encoder" => k = Len(pl_self.components) + 1

\* C28: with an encoder and no batch size the call fails with the
\* configuration error (a ValueError) before the document is converted and
\* before any component or the encoder is invoked; without an encoder no call
\* fails with it, a missing batch size included.
C28_BatchSizeRequired ==
    /\ (pl_pc # "start" /\ pl_self.encoder # None /\ pl_batch_size = None) =>
          /\ pl_pc = "raised"
          /\ pl_ret = Some(Raise("ValueError"))
          /\ pl_chunks = <<>>
          /\ pl_i = 0
          /\ pl_log = <<>>
    /\ (pl_pc # "start" /\ pl_self.encoder = None) =>
          /\ pl_ret # Some(Raise("ValueError"))
          /\ (pl_batch_size = None /\ pl_document = <<>> /\ CallEnded) => pl_pc = "returned"

\* an encoder, components, a document with text blocks, no batch size: the
\* call has raised and nothing was invoked
C28_Witness ==
    /\ pl_pc = "raised"
    /\ pl_self.encoder # None
    /\ pl_batch_size = None
    /\ pl_self.components # <<>>
    /\ pl_document # <<>>
    /\ pl_log = <<>>

EncoderCalls == SelectSeq(pl_log, LAMBDA c : c.callee = "encoder")

\* C29: when the chunk list is empty after the components have run, the call
\* returns the empty list with no matrix (no encoder) or with a matrix of 0
\* rows and encoder.dimension columns (an encoder), and encode_batch is not
\* called; a document without text blocks is such a case.
C29_EmptyResponse ==
    /\ (pl_pc = "returned" /\ pl_chunks = <<>>) =>
          /\ EncoderCalls = <<>>
          /\ Get(pl_ret).ok
          /\ Get(pl_ret).val[1] = <<>>
          /\ IF pl_self.encoder = None THEN Get(pl_ret).val[2] = None
             ELSE Get(pl_ret).val[2] =
                      Some([shape |-> <<0, Get(pl_self.encoder).dimension>>, rows |-> <<>>])
    /\ (CallEnded /\ ~ConfigurationError /\ pl_document = <<>>) =>
          /\ pl_pc = "returned"
          /\ pl_chunks = <<>>

\* an encoder, two components, a document without text blocks: both
\* components were called and the matrix has no row
C29_Witness ==
    /\ pl_pc = "returned"
    /\ pl_self.encoder # None
    /\ pl_document = <<>>
    /\ Len(ComponentCalls) = 2
    /\ Get(pl_ret).val[2] # None
    /\ Get(Get(pl_ret).val[2]).shape = <<0, 2>>

C31_OneChunkPerBlock ==
    (pl_pc # "start" /\ ~ConfigurationError) =>
        LET r == parser_output_to_chunks(pl_document) IN
        /\ r.ok
        /\ pl_i = 0 => pl_chunks = r.val
        /\ Len(r.val) = Len(pl_document)
        /\ \A k \in 1..Len(pl_document) :
              /\ r.val[k].id = k - 1
              /\ r.val[k].chunk_type = pl_document[k].type
              /\ r.val[k].text = to_string(pl_document[k])
              /\ IF pl_document[k].pdf
                 THEN /\ r.val[k].bounding_boxes = Some(<<pl_document[k].coords>>)
                      /\ r.val[k].pages = Some(<<pl_document[k].page_number>>)
                 ELSE /\ r.val[k].bounding_boxes = None
                      /\ r.val[k].pages = None

-----------------------------------------------------------------------------
(* The files to encode (src/src/utils.py) *)

\* the position of the last c in t, 0 when there is none
str_rfind(t, c) ==
    IF \E k \in 1..Len(t) : t[k] = c
    THEN CHOOSE k \in 1..Len(t) : t[k] = c /\ \A j \in (k + 1)..Len(t) : t[j] # c
    ELSE 0

\* os.path.basename: what follows the last '/'
basename(p) == SubSeq(p, str_rfind(p, "/") + 1, Len(p))

\* os.path.splitext(p)[0]: the extension starts at the last '.' of the
\* base name, unless only dots come before it
splitext_root(p) ==
    LET sep == str_rfind(p, "/")
        dot == str_rfind(p, ".")
    IN IF dot > sep /\ \E k \in (sep + 1)..(dot - 1) : p[k] # "."
       THEN SubSeq(p, 1, dot - 1)
       ELSE p

\* os.path.join(a, b)
os_path_join(a, b) ==
    IF b # <<>> /\ b[1] = "/" THEN b
    ELSE IF a = <<>> \/ a[Len(a)] = "/" THEN a \o b
    ELSE a \o <<"/">> \o b

RECURSIVE str_split(_, _)
\* t.split(c) for a one-character separator
str_split(t, c) ==
    IF \E k \in 1..Len(t) : t[k] = c
    THEN LET k == CHOOSE k \in 1..Len(t) : t[k] = c /\ \A j \in 1..(k - 1) : t[j] # c
         IN <<SubSeq(t, 1, k - 1)>> \o str_split(SubSeq(t, k + 1, Len(t)), c)
    ELSE <<t>>

\* get_ids_with_suffix: the set of the ids of the files with the suffix
get_ids_with_suffix(files, suffix) ==
    { splitext_root(basename(files[k])) :
        k \in { j \in 1..Len(files) : endswith_text(files[j], suffix) } }

\* the files get_files_to_process starts from: the listing of input_dir, or
\* the names of config.FILES_TO_PROCESS joined to input_dir
files_to_process(args) ==
    IF args.FILES_TO_PROCESS # None
    THEN LET subset == Tail(str_split(Get(args.FILES_TO_PROCESS), "$"))
         IN [k \in 1..Len(subset) |-> os_path_join(args.input_dir, subset[k])]
    ELSE args.input_listing

\* get_files_to_process: the lists it can return; files_to_process_ids is a
\* set, the list comprehension iterates it in an unspecified order
get_files_to_process(args) ==
    LET document_ids_previously_parsed ==
            get_ids_with_suffix(args.output_listing, <<".", "n", "p", "y">>)
        files_to_process_ids ==
            get_ids_with_suffix(files_to_process(args), <<".", "j", "s", "o", "n">>)
        kept == { id_ \in files_to_process_ids : id_ \notin document_ids_previously_parsed }
        \* the orders in which the set can be iterated
        orders == { o \in [1..Cardinality(kept) -> kept] :
                      \A i, j \in 1..Cardinality(kept) : o[i] = o[j] => i = j }
    IN { IF args.limit # None /\ Get(args.limit) # 0
         THEN SubSeq(o, 1, Min({Get(args.limit), Len(o)}))
         ELSE o : o \in orders }

MaxFiles == 2

\* The arguments of a call and the files it finds: each directory holds at
\* most MaxFiles of a few names; a listing gives bare names (os.listdir) or
\* keys with the prefix (S3).
FilesInit ==
    LET json_a == <<"a", ".", "j", "s", "o", "n">>
        json_b == <<"b", ".", "j", "s", "o", "n">>
        Listings(s3, dir, names) ==
            { [k \in 1..Len(l) |-> IF s3 THEN os_path_join(dir, l[k]) ELSE l[k]] :
                l \in { m \in SeqsUpTo(names, MaxFiles) :
                          \A i, j \in 1..Len(m) : m[i] = m[j] => i = j } }
    IN
    /\ ChunkOff
    /\ ProcessorOff
    /\ PipelineOff
    /\ f_pc = "start"
    /\ \E s3 \in BOOLEAN, redo \in BOOLEAN, limit \in {None, Some(0), Some(1)} :
       \E input_listing \in
              Listings(s3, <<"i">>, {json_a, json_b, <<"b", ".", "t", "x", "t">>}) :
       \E output_listing \in
              Listings(s3, <<"o">>, {<<"a", ".", "n", "p", "y">>,
                                     <<"b", ".", "n", "p", "y">>, json_a}) :
       \E subset \in {None, Some(<<"$">> \o json_a),
                       Some(<<"$">> \o json_b \o <<"$">> \o json_a)} :
           f_args = Some([s3 |-> s3, input_dir |-> <<"i">>, output_dir |-> <<"o">>,
                          redo |-> redo, limit |-> limit,
                          input_listing |-> input_listing,
                          output_listing |-> output_listing,
                          FILES_TO_PROCESS |-> subset])
    /\ f_ret = <<>>

\* get_files_to_process(s3, input_dir, output_dir, redo, limit)
get_files_to_process__call__ ==
    /\ f_pc = "start"
    /\ f_pc' = "returned"
    /\ f_ret' \in get_files_to_process(Get(f_args))
    /\ UNCHANGED f_args
    /\ UNCHANGED <<chunkVars, procVars, pipeVars>>

FilesSpec == FilesInit /\ [][get_files_to_process__call__]_vars

-----------------------------------------------------------------------------
(* Properties of get_files_to_process, checked under FilesSpec *)

Elems(l) == { l[k] : k \in 1..Len(l) }
FilesArgs == Get(f_args)
Unlimited == FilesArgs.limit = None \/ FilesArgs.limit = Some(0)
\* the ids of the .json files the call looks at
CandidateIds ==
    { SubSeq(basename(f), 1, Len(basename(f)) - 5) :
        f \in { g \in Elems(files_to_process(FilesArgs)) :
                  endswith_text(g, <<".", "j", "s", "o", "n">>) } }
\* the ids that have a .npy file in the output directory
EncodedIds ==
    { SubSeq(basename(f), 1, Len(basename(f)) - 4) :
        f \in { g \in Elems(FilesArgs.output_listing) :
                  endswith_text(g, <<".", "n", "p", "y">>) } }

\* C33: without redo the ids that already have a .npy file in the output
\* directory are left out of the returned list; with redo they are in it
\* (every one of them when no limit cuts the list).
C33_RedoIncludesEncoded ==
    f_pc = "returned" =>
        /\ Elems(f_ret) \subseteq CandidateIds
        /\ ~FilesArgs.redo => Elems(f_ret) \cap EncodedIds = {}
        /\ (FilesArgs.redo /\ Unlimited) => Elems(f_ret) = CandidateIds

\* without redo: exactly the ids not yet encoded are returned, and at most
\* limit of them
C33_EncodedSkippedByDefault ==
    (f_pc = "returned" /\ ~FilesArgs.redo) =>
        /\ Elems(f_ret) \subseteq CandidateIds \ EncodedIds
        /\ Unlimited => Elems(f_ret) = CandidateIds \ EncodedIds
        /\ ~Unlimited => Len(f_ret) <= Get(FilesArgs.limit)

====
